---- MODULE Spec2Model ----
(***************************************************************************)
(* Model of the Vulkan backend of rust_gamephysics: the per-frame          *)
(* acquire -> record -> submit -> present protocol of the renderer         *)
(* (renderer/vulkan.rs, renderer/vulkan/device.rs, device/swapchain.rs)    *)
(* and the physical-device selection of Device::new / Device::is_suitable. *)
(*                                                                         *)
(* The driver is the environment.  Its answers are nondeterministic:       *)
(*   - every call that returns a VkResult may fail;                        *)
(*   - vkAcquireNextImageKHR may return any image the application does not *)
(*     hold at that moment (acquired and not yet presented);               *)
(*   - the graphics queue completes its submissions asynchronously, in     *)
(*     submission order (a fence signal of vkQueueSubmit covers every      *)
(*     command earlier in submission order).                               *)
(***************************************************************************)
EXTENDS Integers, Sequences, FiniteSets, TLC

\* ------------------------------------------------------------------ bounds
\* number of swapchain images (swapchain.images.len())
ImageCount == 2
\* draws recorded into one frame before the model stops accepting more
MaxDraws == 2
\* physical devices answered by enumerate_physical_devices
MaxDevices == 2
\* queue families of one physical device
MaxFamilies == 3
\* surface formats answered for one physical device
MaxFormats == 3
\* present modes answered for one physical device
MaxModes == 2
\* meshes passed to load_mesh_data
MaxMeshes == 2
\* largest image count a surface reports
MaxSurfaceImages == 4
\* vertices of one mesh, and indices of one mesh
MaxElems == 2

\* -------------------------------------------------------- program constants
CAMERA_PUSH_OFFSET == 0
WORLD_PUSH_OFFSET == 64

VARIABLES
    current_frame,    \* Backend.current_frame : Option<Frame>, <<>> or <<f>>
    frame,            \* Swapchain.frame, the frame-slot counter
    image_available,  \* signaled state of Swapchain.image_available[i]
    image_owner,      \* per swapchain image: "engine" or "app" (acquired)
    graphics_queue,   \* submissions on queues.graphics not yet completed
    pc,               \* position of the CPU thread: "idle" or "wait_fence"
    acquiring,        \* the local `state` of Swapchain::acquire_image
    log,              \* driver calls made for the current frame, in order
    last_call,        \* the last Renderer call: [op, was_open]
    last_result,      \* its return value: "Ok", "Err" or "unit"
    driver_failed,    \* some driver call has returned an error
    panicked,         \* the thread panicked (index out of bounds)
    mesh_offsets,     \* MeshData.mesh_offsets
    draw_calls,       \* arguments of the draw calls made in the open frame
    devices,          \* the list answered by enumerate_physical_devices
    selection,        \* outcome of the selection in Device::new
    swapchain_info,   \* the SwapchainCreateInfoKHR of create_swapchain
    meshes,           \* the meshes passed to load_mesh_data
    load_pc,          \* position inside load_mesh_data / copy_buffer_data
    region,           \* 1: the vertex copy is running, 2: the index copy
    staging,          \* the StagingBuffer: size, memory, fence, alive
    mesh_buffer,      \* the buffer of MeshData: size, memory
    transfer_queue,   \* copies submitted to queues.transfer, not completed
    mesh_data,        \* the MeshData returned by load_mesh_data, or None
    load_log,         \* driver calls made by load_mesh_data, in order
    drop_pc,          \* how far the drop of the Backend has come
    destroyed,        \* the objects destroyed so far, in order
    new_pc,           \* how far Backend::new has come
    created           \* the objects Backend::new has created and not
                      \* destroyed itself, in order

vars == <<current_frame, frame, image_available, image_owner, graphics_queue,
          pc, acquiring, log, last_call, last_result, driver_failed, panicked,
          mesh_offsets, draw_calls, devices, selection, swapchain_info, meshes, load_pc, region, staging,
          mesh_buffer, transfer_queue, mesh_data, load_log, drop_pc, destroyed,
          new_pc, created>>

frameVars == <<current_frame, frame, image_available, image_owner,
               graphics_queue, pc, acquiring, log, last_call, last_result,
               driver_failed, panicked, mesh_offsets, draw_calls>>

selectVars == <<devices, selection, swapchain_info>>

loadVars == <<meshes, load_pc, region, staging, mesh_buffer, transfer_queue,
              mesh_data, load_log>>

dropVars == <<drop_pc, destroyed>>

newVars == <<new_pc, created>>

Slots == 0 .. (ImageCount - 1)
Images == 0 .. (ImageCount - 1)

\* values passed through to the driver unchanged
Cameras == {"camera"}
Worlds == {"world"}

\* the meshes handed to Backend::new: vertex and index counts
SceneMeshes == << [vertices |-> 4, indices |-> 6], [vertices |-> 3, indices |-> 3] >>

\* ------------------------------------------------------------ mesh offsets
\* MeshOffsetsFrom that takes the offsets after the mesh was appended
RECURSIVE MeshOffsetsFrom_AfterExtend(_, _, _, _)
MeshOffsetsFrom_AfterExtend(ms, k, vlen, ilen) ==
    IF k > Len(ms) THEN <<>>
    ELSE << [index_offset |-> ilen + ms[k].indices,
             vertex_offset |-> vlen + ms[k].vertices,
             index_count |-> ms[k].indices] >>
         \o MeshOffsetsFrom_AfterExtend(ms, k + 1, vlen + ms[k].vertices,
                                        ilen + ms[k].indices)

\* the loop of load_mesh_data from the k-th mesh on; vlen and ilen are
\* vertices.len() and indices.len() at that point
RECURSIVE MeshOffsetsFrom(_, _, _, _)
MeshOffsetsFrom(ms, k, vlen, ilen) ==
    IF k > Len(ms) THEN <<>>
    ELSE << [index_offset |-> ilen, vertex_offset |-> vlen,
             index_count |-> ms[k].indices] >>
         \o MeshOffsetsFrom(ms, k + 1, vlen + ms[k].vertices,
                            ilen + ms[k].indices)

\* the mesh_offsets table built by the loop of load_mesh_data
MeshOffsets(ms) == MeshOffsetsFrom(ms, 1, 0, 0)

\* handles a caller may pass to draw: the valid ones and one past the end
Handles == 0 .. Len(SceneMeshes)

\* ------------------------------------------------------------ driver calls
EvAcquire(sem, image) ==
    [op |-> "acquire_next_image", semaphore |-> sem, image_index |-> image]
EvWaitFence(fence) == [op |-> "wait_for_fences", fence |-> fence]
EvResetFence(fence) == [op |-> "reset_fences", fence |-> fence]
EvBeginCommandBuffer(cmd) == [op |-> "begin_command_buffer", command |-> cmd]
EvBeginRenderPass(cmd, fb) ==
    [op |-> "cmd_begin_render_pass", command |-> cmd, framebuffer |-> fb]
EvBindPipeline(cmd) == [op |-> "cmd_bind_pipeline", command |-> cmd]
EvPushConstants(cmd, offset, data) ==
    [op |-> "cmd_push_constants", command |-> cmd, offset |-> offset, data |-> data]
EvBindVertexBuffers(cmd) == [op |-> "cmd_bind_vertex_buffers", command |-> cmd]
EvBindIndexBuffer(cmd) == [op |-> "cmd_bind_index_buffer", command |-> cmd]
\* EvDrawIndexed with the index offset and the vertex offset exchanged
EvDrawIndexed_OffsetsSwapped(cmd, count, first, voff) ==
    [op |-> "cmd_draw_indexed", command |-> cmd, index_count |-> count,
     first_index |-> voff, vertex_offset |-> first]

\* cmd_draw_indexed(command, index_count, 1, first_index, vertex_offset, 0)
EvDrawIndexed(cmd, count, first, voff) ==
    [op |-> "cmd_draw_indexed", command |-> cmd, index_count |-> count,
     first_index |-> first, vertex_offset |-> voff]
EvEndRenderPass(cmd) == [op |-> "cmd_end_render_pass", command |-> cmd]
EvEndCommandBuffer(cmd) == [op |-> "end_command_buffer", command |-> cmd]
EvQueueSubmit(cmd, wait, signal, fence) ==
    [op |-> "queue_submit", command |-> cmd, wait |-> wait, signal |-> signal,
     fence |-> fence]
EvQueuePresent(image, wait, suboptimal) ==
    [op |-> "queue_present", image_index |-> image, wait |-> wait,
     suboptimal |-> suboptimal]
EvError(call) == [op |-> "error", call |-> call]

Call(op) == [op |-> op, was_open |-> current_frame # <<>>]

\* Fails with the error dropped: the call returns Ok
Fails_ReturnsOk == /\ last_result' = "Ok"
                   /\ driver_failed' = TRUE

\* a call returns an error: nothing but the result and the listed changes
Fails == /\ last_result' = "Err"
         /\ driver_failed' = TRUE

\* EndFrameResult that reports a suboptimal present as an error
EndFrameResult_SuboptimalIsError(suboptimal) ==
    IF suboptimal THEN "Err" ELSE "Ok"

\* what Device::end_frame returns for the Ok(suboptimal) of present_image:
\* the flag is bound to _suboptimal and dropped
EndFrameResult(suboptimal) == "Ok"

\* --------------------------------------------------------------- swapchain
\* AcquireImage that takes the fence and the framebuffer of the frame slot
AcquireImage_BySlot ==
    \/ /\ last_result' = "Err"
       /\ driver_failed' = TRUE
       /\ log' = << EvError("acquire_next_image") >>
       /\ UNCHANGED <<image_owner, pc, acquiring>>
    \/ \E image_index \in Images :
          /\ image_owner[image_index] = "engine"
          /\ image_owner' = [image_owner EXCEPT ![image_index] = "app"]
          /\ acquiring' = << [command |-> frame,
                              draw_ready |-> frame,
                              draw_finished |-> frame,
                              framebuffer |-> frame,
                              available |-> frame,
                              image_index |-> image_index] >>
          /\ log' = << EvAcquire(frame, image_index) >>
          /\ pc' = "wait_fence"
          /\ UNCHANGED <<last_result, driver_failed>>

\* Swapchain::acquire_image up to the point where it blocks in
\* wait_for_fences.  Acquisition needs an image that the application does not
\* hold; the presentation engine picks which one.
AcquireImage ==
    \/ /\ last_result' = "Err"      \* acquire_next_image fails
       /\ driver_failed' = TRUE
       /\ log' = << EvError("acquire_next_image") >>
       /\ UNCHANGED <<image_owner, pc, acquiring>>
    \/ \E image_index \in Images :
          /\ image_owner[image_index] = "engine"
          /\ image_owner' = [image_owner EXCEPT ![image_index] = "app"]
          /\ acquiring' = << [command |-> frame,
                              draw_ready |-> frame,
                              draw_finished |-> frame,
                              framebuffer |-> image_index,
                              available |-> image_index,
                              image_index |-> image_index] >>
          /\ log' = << EvAcquire(frame, image_index) >>
          /\ pc' = "wait_fence"
          /\ UNCHANGED <<last_result, driver_failed>>

\* RecordBegin with the camera pushed before the render pass is begun
RecordBegin_PushFirst(f, camera) ==
    << EvPushConstants(f.command, CAMERA_PUSH_OFFSET, camera),
       EvBeginRenderPass(f.command, f.framebuffer),
       EvBindPipeline(f.command),
       EvBindVertexBuffers(f.command),
       EvBindIndexBuffer(f.command) >>

\* the commands Device::begin_frame records after acquire_image returned
RecordBegin(f, camera) ==
    << EvBeginRenderPass(f.command, f.framebuffer),
       EvBindPipeline(f.command),
       EvPushConstants(f.command, CAMERA_PUSH_OFFSET, camera),
       EvBindVertexBuffers(f.command),
       EvBindIndexBuffer(f.command) >>

\* BeginFrame without the current_frame.is_none() test
BeginFrame_NoGuard ==
    /\ drop_pc = "alive"
    /\ pc = "idle" /\ ~panicked
    /\ last_call' = Call("begin_frame")
    /\ AcquireImage
    /\ draw_calls' = <<>>
    /\ UNCHANGED <<current_frame, frame, image_available, graphics_queue>>
    /\ UNCHANGED <<panicked, mesh_offsets, selectVars,
                   loadVars, dropVars, newVars>>

\* Backend::begin_frame, from the call to the fence wait (or to its return
\* when a frame is already open or acquisition fails)
BeginFrame ==
    /\ drop_pc = "alive"
    /\ pc = "idle" /\ ~panicked
    /\ last_call' = Call("begin_frame")
    /\ IF current_frame # <<>>
       THEN /\ last_result' = "Ok"
            /\ UNCHANGED <<current_frame, frame, image_available, image_owner,
                           graphics_queue, pc, acquiring, log, driver_failed,
                           draw_calls>>
       ELSE /\ AcquireImage
            /\ draw_calls' = <<>>
            /\ UNCHANGED <<current_frame, frame, image_available, graphics_queue>>
    /\ UNCHANGED <<panicked, mesh_offsets, selectVars,
                   loadVars, dropVars, newVars>>

\* Backend::begin_frame, from the fence wait to its return
BeginFrameResume ==
    /\ pc = "wait_fence"
    /\ pc' = "idle"
    /\ acquiring' = <<>>
    /\ LET state == acquiring[1] IN
       \/ /\ Fails                   \* wait_for_fences fails
          /\ log' = Append(log, EvError("wait_for_fences"))
          /\ UNCHANGED <<current_frame, image_available>>
       \/ /\ image_available[state.available]
          /\ \/ /\ Fails             \* reset_fences fails
                /\ log' = log \o << EvWaitFence(state.available),
                                    EvError("reset_fences") >>
                /\ UNCHANGED <<current_frame, image_available>>
             \/ /\ image_available' =
                       [image_available EXCEPT ![state.available] = FALSE]
                /\ \/ /\ Fails       \* begin_command_buffer fails
                      /\ log' = log \o << EvWaitFence(state.available),
                                          EvResetFence(state.available),
                                          EvError("begin_command_buffer") >>
                      /\ UNCHANGED current_frame
                   \/ \E camera \in Cameras :
                         /\ log' = log \o << EvWaitFence(state.available),
                                             EvResetFence(state.available),
                                             EvBeginCommandBuffer(state.command) >>
                                       \o RecordBegin(state, camera)
                         /\ current_frame' = << state >>
                         /\ last_result' = "Ok"
                         /\ UNCHANGED driver_failed
    /\ UNCHANGED <<frame, image_owner, graphics_queue, last_call, panicked,
                   mesh_offsets, draw_calls, selectVars,
                   loadVars, dropVars, newVars>>

DrawCount == Cardinality({k \in 1 .. Len(log) : log[k].op = "cmd_draw_indexed"})

\* Draw without the current_frame.is_some() test: with no open frame it
\* records into the command buffer of the current slot
Draw_NoGuard ==
    /\ drop_pc = "alive"
    /\ pc = "idle" /\ ~panicked
    /\ last_call' = Call("draw")
    /\ last_result' = "unit"
    /\ \E mesh \in Handles, world \in Worlds :
          /\ DrawCount < MaxDraws
          /\ IF mesh < Len(mesh_offsets)
             THEN LET command == IF current_frame # <<>>
                                 THEN current_frame[1].command ELSE frame
                      offsets == mesh_offsets[mesh + 1] IN
                  /\ log' = log \o
                       << EvPushConstants(command, WORLD_PUSH_OFFSET, world),
                          EvDrawIndexed(command, offsets.index_count,
                                        offsets.index_offset,
                                        offsets.vertex_offset) >>
                  /\ draw_calls' = IF current_frame # <<>>
                                   THEN Append(draw_calls, [mesh |-> mesh, world |-> world])
                                   ELSE draw_calls
                  /\ UNCHANGED panicked
             ELSE /\ panicked' = TRUE
                  /\ UNCHANGED <<log, draw_calls>>
    /\ UNCHANGED <<current_frame, frame, image_available, image_owner,
                   graphics_queue, pc, acquiring, driver_failed, mesh_offsets,
                   selectVars, loadVars, dropVars, newVars>>

\* Backend::draw with Device::draw
Draw ==
    /\ drop_pc = "alive"
    /\ pc = "idle" /\ ~panicked
    /\ last_call' = Call("draw")
    /\ last_result' = "unit"
    /\ \E mesh \in Handles, world \in Worlds :
          IF current_frame # <<>>
          THEN /\ DrawCount < MaxDraws
               /\ IF mesh < Len(mesh_offsets)
                  THEN LET f == current_frame[1]
                           offsets == mesh_offsets[mesh + 1] IN
                       /\ log' = log \o
                            << EvPushConstants(f.command, WORLD_PUSH_OFFSET, world),
                               EvDrawIndexed(f.command, offsets.index_count,
                                             offsets.index_offset,
                                             offsets.vertex_offset) >>
                       /\ draw_calls' = Append(draw_calls,
                                               [mesh |-> mesh, world |-> world])
                       /\ UNCHANGED panicked
                  ELSE /\ panicked' = TRUE   \* mesh_offsets[mesh.0] out of bounds
                       /\ UNCHANGED <<log, draw_calls>>
          ELSE UNCHANGED <<log, panicked, draw_calls>>
    /\ UNCHANGED <<current_frame, frame, image_available, image_owner,
                   graphics_queue, pc, acquiring, driver_failed, mesh_offsets,
                   selectVars, loadVars, dropVars, newVars>>

\* PresentImage that advances the slot counter before it looks at the result
PresentImage_AdvanceFirst(state, sofar) ==
    \/ /\ Fails
       /\ log' = sofar \o << EvError("queue_present") >>
       /\ frame' = (frame + 1) % ImageCount
       /\ UNCHANGED image_owner
    \/ \E suboptimal \in BOOLEAN :     \* queue_present returns Ok(suboptimal)
          /\ log' = sofar \o << EvQueuePresent(state.image_index,
                                                state.draw_finished, suboptimal) >>
          /\ image_owner' = [image_owner EXCEPT ![state.image_index] = "engine"]
          /\ frame' = (frame + 1) % ImageCount
          /\ last_result' = EndFrameResult(suboptimal)
          /\ UNCHANGED driver_failed

\* Swapchain::present_image
PresentImage(state, sofar) ==
    \/ /\ Fails                      \* queue_present fails
       /\ log' = sofar \o << EvError("queue_present") >>
       /\ UNCHANGED <<frame, image_owner>>
    \/ \E suboptimal \in BOOLEAN :     \* queue_present returns Ok(suboptimal)
          /\ log' = sofar \o << EvQueuePresent(state.image_index,
                                                state.draw_finished, suboptimal) >>
          /\ image_owner' = [image_owner EXCEPT ![state.image_index] = "engine"]
          /\ frame' = (frame + 1) % ImageCount
          /\ last_result' = EndFrameResult(suboptimal)
          /\ UNCHANGED driver_failed

\* DeviceEndFrame that submits with the fence of the frame slot instead of
\* the fence of the acquired image
DeviceEndFrame_SlotFence(state) ==
    LET ended == Append(log, EvEndRenderPass(state.command)) IN
    \/ /\ Fails
       /\ log' = ended \o << EvError("end_command_buffer") >>
       /\ UNCHANGED <<frame, image_owner, graphics_queue>>
    \/ /\ Fails
       /\ log' = ended \o << EvEndCommandBuffer(state.command),
                             EvError("queue_submit") >>
       /\ UNCHANGED <<frame, image_owner, graphics_queue>>
    \/ /\ graphics_queue' = Append(graphics_queue,
               [command |-> state.command, wait |-> state.draw_ready,
                signal |-> state.draw_finished, fence |-> state.command])
       /\ PresentImage(state, ended \o
               << EvEndCommandBuffer(state.command),
                  EvQueueSubmit(state.command, state.draw_ready,
                                state.draw_finished, state.command) >>)

\* Device::end_frame
DeviceEndFrame(state) ==
    LET ended == Append(log, EvEndRenderPass(state.command)) IN
    \/ /\ Fails                      \* end_command_buffer fails
       /\ log' = ended \o << EvError("end_command_buffer") >>
       /\ UNCHANGED <<frame, image_owner, graphics_queue>>
    \/ /\ Fails                      \* queue_submit fails
       /\ log' = ended \o << EvEndCommandBuffer(state.command),
                             EvError("queue_submit") >>
       /\ UNCHANGED <<frame, image_owner, graphics_queue>>
    \/ /\ graphics_queue' = Append(graphics_queue,
               [command |-> state.command, wait |-> state.draw_ready,
                signal |-> state.draw_finished, fence |-> state.available])
       /\ PresentImage(state, ended \o
               << EvEndCommandBuffer(state.command),
                  EvQueueSubmit(state.command, state.draw_ready,
                                state.draw_finished, state.available) >>)

\* EndFrame that reads the open frame without taking it out of current_frame
EndFrame_NoTake ==
    /\ drop_pc = "alive"
    /\ pc = "idle" /\ ~panicked
    /\ last_call' = Call("end_frame")
    /\ IF current_frame # <<>>
       THEN /\ UNCHANGED current_frame
            /\ DeviceEndFrame(current_frame[1])
       ELSE /\ last_result' = "Ok"
            /\ UNCHANGED <<current_frame, frame, image_owner, graphics_queue,
                           log, driver_failed>>
    /\ UNCHANGED <<image_available, pc, acquiring, panicked, mesh_offsets,
                   draw_calls, selectVars, loadVars, dropVars, newVars>>

\* Backend::end_frame
EndFrame ==
    /\ drop_pc = "alive"
    /\ pc = "idle" /\ ~panicked
    /\ last_call' = Call("end_frame")
    /\ IF current_frame # <<>>
       THEN /\ current_frame' = <<>>     \* current_frame.take()
            /\ DeviceEndFrame(current_frame[1])
       ELSE /\ last_result' = "Ok"
            /\ UNCHANGED <<current_frame, frame, image_owner, graphics_queue,
                           log, driver_failed>>
    /\ UNCHANGED <<image_available, pc, acquiring, panicked, mesh_offsets,
                   draw_calls, selectVars, loadVars, dropVars, newVars>>

\* GpuComplete that finishes the submission without signaling its fence
GpuComplete_NoSignal ==
    /\ graphics_queue # <<>>
    /\ graphics_queue' = Tail(graphics_queue)
    /\ last_call' = [op |-> "gpu", was_open |-> current_frame # <<>>]
    /\ UNCHANGED <<current_frame, frame, image_available, image_owner, pc,
                   acquiring, log, last_result, driver_failed, panicked,
                   mesh_offsets, draw_calls, selectVars, loadVars, dropVars, newVars>>

\* the graphics queue finishes its oldest submission and signals its fence
GpuComplete ==
    /\ graphics_queue # <<>>
    /\ image_available' =
           [image_available EXCEPT ![Head(graphics_queue).fence] = TRUE]
    /\ graphics_queue' = Tail(graphics_queue)
    /\ last_call' = [op |-> "gpu", was_open |-> current_frame # <<>>]
    /\ UNCHANGED <<current_frame, frame, image_owner, pc, acquiring, log,
                   last_result, driver_failed, panicked, mesh_offsets,
                   draw_calls, selectVars, loadVars, dropVars, newVars>>

\* ======================================================= device selection
\* Option<T> and Result<T, E>: <<>> is None / Err, <<v>> is Some(v) / Ok(v)
None == <<>>
Some(v) == << v >>
Unwrap(o) == o[1]

PREFERRED_SURFACE_FORMATS == << "R8G8B8A8_UNORM", "B8G8R8A8_UNORM" >>
PREFERRED_DEPTH_FORMATS ==
    << "D32_SFLOAT", "D24_UNORM_S8_UINT", "D16_UNORM", "D16_UNORM_S8_UINT" >>

Contains(seq, x) == \E k \in 1 .. Len(seq) : seq[k] = x

\* Device::required_extensions
RequiredExtensions == << "VK_KHR_swapchain" >>

\* ExtensionSupported that only needs the enumeration to succeed
ExtensionSupported_Any(d) ==
    IF d.extensions = None THEN None ELSE Some(TRUE)

\* Device::extension_supported
ExtensionSupported(d) ==
    IF d.extensions = None
    THEN None
    ELSE IF \A r \in 1 .. Len(RequiredExtensions) :
                Contains(Unwrap(d.extensions), RequiredExtensions[r])
         THEN Some(TRUE)
         ELSE None

\* the fields of vk::PhysicalDeviceFeatures the model keeps
FeatureNames == {"sampler_anisotropy", "geometry_shader"}

\* Device::required_features
RequiredFeatures == [f \in FeatureNames |-> f = "sampler_anisotropy"]

\* Device::features_supported
FeaturesSupported(d) ==
    IF \E f \in FeatureNames : RequiredFeatures[f] /\ d.features[f] # RequiredFeatures[f]
    THEN None
    ELSE Some(RequiredFeatures)

\* PresentMode that takes the first mode the device reports
PresentMode_First(modes) ==
    IF modes = <<>> THEN "FIFO" ELSE modes[1]

\* the present mode resolved by is_suitable from an answered mode list
PresentMode(modes) ==
    IF Contains(modes, "MAILBOX") THEN "MAILBOX" ELSE "FIFO"

\* QueueFamiliesStep that keeps the first compute family it has found
QueueFamiliesStep_ComputeKept(acc, family, properties) ==
    LET graphics == IF acc.graphics = None /\ "GRAPHICS" \in properties.queue_flags
                    THEN Some(family) ELSE acc.graphics
        compute == IF "GRAPHICS" \in properties.queue_flags /\ acc.compute = None
                   THEN Some(family) ELSE acc.compute
        transfer == IF "TRANSFER" \in properties.queue_flags
                       /\ (acc.transfer = graphics \/ acc.transfer = compute
                           \/ acc.transfer = None)
                    THEN Some(family) ELSE acc.transfer
        present == IF properties.surface_support = Some(TRUE)
                   THEN Some(family) ELSE acc.present
    IN [graphics |-> graphics, compute |-> compute, transfer |-> transfer,
        present |-> present]

\* one iteration of the loop of Device::queue_families for family index
\* `family` with its properties; acc holds the four Option<u32>
QueueFamiliesStep(acc, family, properties) ==
    LET graphics == IF acc.graphics = None /\ "GRAPHICS" \in properties.queue_flags
                    THEN Some(family) ELSE acc.graphics
        compute == IF "GRAPHICS" \in properties.queue_flags
                      /\ (graphics = acc.compute \/ acc.compute = None)
                   THEN Some(family) ELSE acc.compute
        transfer == IF "TRANSFER" \in properties.queue_flags
                       /\ (acc.transfer = graphics \/ acc.transfer = compute
                           \/ acc.transfer = None)
                    THEN Some(family) ELSE acc.transfer
        present == IF properties.surface_support = Some(TRUE)
                   THEN Some(family) ELSE acc.present
    IN [graphics |-> graphics, compute |-> compute, transfer |-> transfer,
        present |-> present]

RECURSIVE QueueFamiliesLoop(_, _, _)
QueueFamiliesLoop(families, k, acc) ==
    IF k > Len(families) THEN acc
    ELSE QueueFamiliesLoop(families, k + 1,
                           QueueFamiliesStep(acc, k - 1, families[k]))

\* QueueFamilies that hands the graphics family out as the transfer family
QueueFamilies_TransferIsGraphics(d) ==
    LET r == QueueFamiliesLoop(d.queue_families, 1,
                 [graphics |-> None, compute |-> None, transfer |-> None,
                  present |-> None])
    IN IF r.graphics = None \/ r.compute = None \/ r.transfer = None
          \/ r.present = None
       THEN None
       ELSE Some([graphics |-> Unwrap(r.graphics), compute |-> Unwrap(r.compute),
                  transfer |-> Unwrap(r.graphics), present |-> Unwrap(r.present)])

\* Device::queue_families
QueueFamilies(d) ==
    LET r == QueueFamiliesLoop(d.queue_families, 1,
                 [graphics |-> None, compute |-> None, transfer |-> None,
                  present |-> None])
    IN IF r.graphics = None \/ r.compute = None \/ r.transfer = None
          \/ r.present = None
       THEN None
       ELSE Some([graphics |-> Unwrap(r.graphics), compute |-> Unwrap(r.compute),
                  transfer |-> Unwrap(r.transfer), present |-> Unwrap(r.present)])

\* SurfaceFormat that always takes the first reported format
SurfaceFormat_First(surface_formats) == surface_formats[1]

\* the surface format resolved by is_suitable from an answered format list
SurfaceFormat(surface_formats) ==
    LET Preferred(sf) == Contains(PREFERRED_SURFACE_FORMATS, sf.format)
        found == {k \in 1 .. Len(surface_formats) :
                     /\ Preferred(surface_formats[k])
                     /\ \A j \in 1 .. (k - 1) : ~Preferred(surface_formats[j])}
    IN IF found # {}
       THEN surface_formats[CHOOSE k \in found : TRUE]
       ELSE surface_formats[1]

\* SupportedImageFormat that looks at the linear features for optimal tiling
RECURSIVE SupportedImageFormat_Linear(_, _, _, _, _)
SupportedImageFormat_Linear(d, formats, k, tiling, features) ==
    IF k > Len(formats) THEN None
    ELSE LET properties == d.format_properties[formats[k]] IN
         IF tiling = "OPTIMAL" /\ features \subseteq properties.linear_tiling_features
         THEN Some(formats[k])
         ELSE IF tiling = "LINEAR" /\ features \subseteq properties.optimal_tiling_features
         THEN Some(formats[k])
         ELSE SupportedImageFormat_Linear(d, formats, k + 1, tiling, features)

\* Device::supported_image_format, from the k-th format of the list on
RECURSIVE SupportedImageFormat(_, _, _, _, _)
SupportedImageFormat(d, formats, k, tiling, features) ==
    IF k > Len(formats) THEN None
    ELSE LET properties == d.format_properties[formats[k]] IN
         IF tiling = "OPTIMAL" /\ features \subseteq properties.optimal_tiling_features
         THEN Some(formats[k])
         ELSE IF tiling = "LINEAR" /\ features \subseteq properties.linear_tiling_features
         THEN Some(formats[k])
         ELSE SupportedImageFormat(d, formats, k + 1, tiling, features)

\* Device::is_suitable for the device with handle `device` and answers d
IsSuitable(device, d) ==
    IF d.device_type \notin {"INTEGRATED_GPU", "DISCRETE_GPU"} THEN None
    ELSE IF ExtensionSupported(d) = None THEN None
    ELSE IF FeaturesSupported(d) = None THEN None
    ELSE IF d.present_modes = None THEN None
    ELSE IF QueueFamilies(d) = None THEN None
    ELSE IF d.surface_formats = None THEN None
    ELSE IF d.surface_capabilities = None THEN None
    ELSE LET depth_format ==
                 SupportedImageFormat(d, PREFERRED_DEPTH_FORMATS, 1, "OPTIMAL",
                                      {"DEPTH_STENCIL_ATTACHMENT"})
         IN IF depth_format = None THEN None
            ELSE Some([device |-> device,
                       queue_families |-> Unwrap(QueueFamilies(d)),
                       surface_format |-> SurfaceFormat(Unwrap(d.surface_formats)),
                       present_mode |-> PresentMode(Unwrap(d.present_modes)),
                       surface_capabilities |-> Unwrap(d.surface_capabilities),
                       depth_format |-> Unwrap(depth_format),
                       enabled_features |-> Unwrap(FeaturesSupported(d))])

\* FindSuitable that keeps the last suitable device instead of the first
RECURSIVE FindSuitable_Last(_, _)
FindSuitable_Last(devs, k) ==
    IF k > Len(devs) THEN None
    ELSE LET rest == FindSuitable_Last(devs, k + 1) IN
         IF rest # None THEN rest ELSE IsSuitable(k, devs[k])

\* devices.into_iter().find_map(is_suitable), from the k-th device on
RECURSIVE FindSuitable(_, _)
FindSuitable(devs, k) ==
    IF k > Len(devs) THEN None
    ELSE LET config == IsSuitable(k, devs[k]) IN
         IF config # None THEN config ELSE FindSuitable(devs, k + 1)

\* the selection at the head of Device::new
SelectDevice ==
    /\ selection = None
    /\ swapchain_info = None
    /\ \/ selection' = Some([status |-> "Err", error |-> "enumerate_physical_devices"])
       \/ LET config == FindSuitable(devices, 1) IN
          selection' = Some(IF config = None
                            THEN [status |-> "Err",
                                  error |-> "Failed to pick suitable physical device"]
                            ELSE [status |-> "Ok", config |-> Unwrap(config)])
    /\ UNCHANGED <<devices, swapchain_info, frameVars, loadVars, dropVars, newVars>>

\* RequestedImageCount that does not look at the maximum of the surface
RequestedImageCount_Uncapped(capabilities) ==
    capabilities.min_image_count + 1

\* the min_image_count create_swapchain asks for
RequestedImageCount(capabilities) ==
    IF capabilities.max_image_count = 0
    THEN capabilities.min_image_count + 1
    ELSE IF capabilities.min_image_count + 1 <= capabilities.max_image_count
         THEN capabilities.min_image_count + 1
         ELSE capabilities.max_image_count

\* Device::create_swapchain for the selected device, up to the call of
\* create_swapchain of the driver
CreateSwapchain ==
    /\ selection # None
    /\ Unwrap(selection).status = "Ok"
    /\ swapchain_info = None
    /\ LET config == Unwrap(selection).config
           info == [min_image_count |-> RequestedImageCount(config.surface_capabilities),
                    image_format |-> config.surface_format.format,
                    image_color_space |-> config.surface_format.color_space,
                    present_mode |-> config.present_mode,
                    image_sharing_mode |->
                        IF config.queue_families.graphics = config.queue_families.present
                        THEN "EXCLUSIVE" ELSE "CONCURRENT"]
       IN \/ swapchain_info' = Some([status |-> "Err", info |-> info])
          \/ swapchain_info' = Some([status |-> "Ok", info |-> info])
    /\ UNCHANGED <<devices, selection, frameVars, loadVars, dropVars, newVars>>

\* ------------------------------------------------ answers of the driver
SeqsUpTo(S, n) == UNION {[1 .. k -> S] : k \in 0 .. n}

DeviceTypes == {"OTHER", "INTEGRATED_GPU", "DISCRETE_GPU", "VIRTUAL_GPU", "CPU"}

ExtensionAnswers ==
    {None, Some(<<>>), Some(<< "VK_KHR_swapchain" >>),
     Some(<< "VK_KHR_maintenance1" >>),
     Some(<< "VK_KHR_maintenance1", "VK_KHR_swapchain" >>)}

FeatureAnswers == [FeatureNames -> BOOLEAN]

PresentModeAnswers ==
    {None, Some(<< "FIFO" >>), Some(<< "FIFO", "MAILBOX" >>),
     Some(<< "IMMEDIATE", "FIFO" >>)}

\* vk::PresentModeKHR
PresentModes == {"IMMEDIATE", "MAILBOX", "FIFO", "FIFO_RELAXED"}

\* get_physical_device_surface_present_modes answers a list that holds FIFO,
\* the mode every presentable surface supports
PresentModeLists ==
    {l \in SeqsUpTo(PresentModes, MaxModes) : \E k \in 1 .. Len(l) : l[k] = "FIFO"}

\* one queue family: its flags and the answer of device_surface_support
FamilyAnswers ==
    [queue_flags : {{"GRAPHICS", "COMPUTE", "TRANSFER"}, {"GRAPHICS"},
                    {"TRANSFER"}, {"COMPUTE"}},
     surface_support : {Some(TRUE), Some(FALSE), None}]

SurfaceFormats ==
    [format : {"R8G8B8A8_UNORM", "B8G8R8A8_UNORM", "R8G8B8A8_SRGB",
               "A2B10G10R10_UNORM_PACK32"},
     color_space : {"SRGB_NONLINEAR", "EXTENDED_SRGB_LINEAR"}]

\* get_physical_device_surface_formats answers at least one format for a
\* device that can present to the surface
SurfaceFormatLists == SeqsUpTo(SurfaceFormats, MaxFormats) \ {<<>>}

SurfaceCapabilityAnswers ==
    {None, Some([min_image_count |-> 2, max_image_count |-> 0])}

\* the image counts of a surface: at least one image, and a maximum that is
\* 0 (no limit) or not below the minimum
SurfaceCapabilities ==
    {c \in [min_image_count : 1 .. MaxSurfaceImages,
            max_image_count : 0 .. MaxSurfaceImages] :
        c.max_image_count = 0 \/ c.max_image_count >= c.min_image_count}

DepthFormats == {PREFERRED_DEPTH_FORMATS[k] : k \in 1 .. Len(PREFERRED_DEPTH_FORMATS)}

FormatProperties ==
    [optimal_tiling_features : {{"SAMPLED_IMAGE"},
                                {"SAMPLED_IMAGE", "DEPTH_STENCIL_ATTACHMENT"}},
     linear_tiling_features : {{}, {"DEPTH_STENCIL_ATTACHMENT"}}]

FormatPropertyAnswers == [DepthFormats -> FormatProperties]

\* a device that passes every check of is_suitable
BaseDevice ==
    [device_type |-> "DISCRETE_GPU",
     extensions |-> Some(<< "VK_KHR_swapchain" >>),
     features |-> [f \in FeatureNames |-> TRUE],
     present_modes |-> Some(<< "FIFO" >>),
     queue_families |-> << [queue_flags |-> {"GRAPHICS", "COMPUTE", "TRANSFER"},
                            surface_support |-> Some(TRUE)] >>,
     surface_formats |-> Some(<< [format |-> "B8G8R8A8_UNORM",
                                  color_space |-> "SRGB_NONLINEAR"] >>),
     surface_capabilities |-> Some([min_image_count |-> 2, max_image_count |-> 0]),
     format_properties |->
         [f \in DepthFormats |->
             [optimal_tiling_features |-> {"SAMPLED_IMAGE", "DEPTH_STENCIL_ATTACHMENT"},
              linear_tiling_features |-> {}]]]

NoDepthAttachment ==
    [f \in DepthFormats |->
        [optimal_tiling_features |-> {"SAMPLED_IMAGE"},
         linear_tiling_features |-> {"DEPTH_STENCIL_ATTACHMENT"}]]

\* devices that differ from BaseDevice in the answer to one query
DeviceSet ==
    {[BaseDevice EXCEPT !.device_type = v] : v \in DeviceTypes}
    \cup {[BaseDevice EXCEPT !.extensions = v] : v \in ExtensionAnswers}
    \cup {[BaseDevice EXCEPT !.features = v] : v \in FeatureAnswers}
    \cup {[BaseDevice EXCEPT !.present_modes = v] : v \in PresentModeAnswers}
    \cup {[BaseDevice EXCEPT !.queue_families = v] : v \in SeqsUpTo(FamilyAnswers, 1)}
    \cup {[BaseDevice EXCEPT !.surface_formats = v] :
             v \in {None, Some(<< [format |-> "R8G8B8A8_SRGB",
                                   color_space |-> "SRGB_NONLINEAR"] >>)}}
    \cup {[BaseDevice EXCEPT !.surface_capabilities = v] : v \in SurfaceCapabilityAnswers}
    \cup {[BaseDevice EXCEPT !.format_properties = NoDepthAttachment]}

\* the device lists the selection is run on: lists of devices that differ in
\* one answer, and single devices with every family list, every surface
\* format list and every depth format table
DeviceLists ==
    SeqsUpTo(DeviceSet, MaxDevices)
    \cup {<< [BaseDevice EXCEPT !.queue_families = v] >> :
             v \in SeqsUpTo(FamilyAnswers, MaxFamilies)}
    \cup {<< [BaseDevice EXCEPT !.surface_formats = Some(v)] >> :
             v \in SurfaceFormatLists}
    \cup {<< [BaseDevice EXCEPT !.format_properties = v] >> :
             v \in FormatPropertyAnswers}
    \cup {<< [BaseDevice EXCEPT !.present_modes = Some(v)] >> :
             v \in PresentModeLists}
    \cup {<< [BaseDevice EXCEPT !.surface_capabilities = Some(v)] >> :
             v \in SurfaceCapabilities}

\* ============================================================ mesh upload
\* size_of::<Vertex>(): pos, norm (Vector3), tang, color (Vector4) and tex
\* (Vector2) are 16 f32 fields in a repr(C) struct
VertexSize == 64
\* size_of::<u32>()
IndexSize == 4

\* one byte of memory is <<kind, a, b>>: a byte nothing has written yet,
\* byte j of the vertex v, or a byte of value x of an integer
Undef == << "undef", 0, 0 >>
VertexByte(v, j) == << "vertex", v, j >>
U8(x) == << "u8", x, 0 >>

\* bytemuck::cast_slice::<Vertex, u8>: the vertices laid out one after another
CastSliceVertex(vs) ==
    [b \in 1 .. (Len(vs) * VertexSize) |->
        VertexByte(vs[((b - 1) \div VertexSize) + 1], (b - 1) % VertexSize)]

\* bytemuck::cast_slice::<u32, u8>: four bytes per index, least significant
\* byte first
CastSliceU32(is) ==
    [b \in 1 .. (Len(is) * IndexSize) |->
        U8((is[((b - 1) \div IndexSize) + 1] \div (256 ^ ((b - 1) % IndexSize))) % 256)]

\* the vertices of all meshes, from the k-th mesh on, in list order
RECURSIVE VerticesFrom(_, _)
VerticesFrom(ms, k) ==
    IF k > Len(ms) THEN <<>> ELSE ms[k].vertices \o VerticesFrom(ms, k + 1)

\* the indices of all meshes, from the k-th mesh on, in list order
RECURSIVE IndicesFrom(_, _)
IndicesFrom(ms, k) ==
    IF k > Len(ms) THEN <<>> ELSE ms[k].indices \o IndicesFrom(ms, k + 1)

\* mesh.vertices.len() and mesh.indices.len() of every mesh
Counts(ms) ==
    [k \in 1 .. Len(ms) |->
        [vertices |-> Len(ms[k].vertices), indices |-> Len(ms[k].indices)]]

VertexByteSize(ms) == Len(VerticesFrom(ms, 1)) * VertexSize
IndexByteSize(ms) == Len(IndicesFrom(ms, 1)) * IndexSize
BufferByteSize(ms) == VertexByteSize(ms) + IndexByteSize(ms)
\* StagingByteSize that takes the smaller of the two regions
StagingByteSize_Smaller(ms) ==
    IF VertexByteSize(ms) >= IndexByteSize(ms)
    THEN IndexByteSize(ms) ELSE VertexByteSize(ms)

\* usize::max(vertex_byte_size, index_byte_size)
StagingByteSize(ms) ==
    IF VertexByteSize(ms) >= IndexByteSize(ms)
    THEN VertexByteSize(ms) ELSE IndexByteSize(ms)

\* UploadRegion that copies both regions to the start of the buffer
UploadRegion_NoOffset(r, ms) ==
    IF r = 1
    THEN [dst_offset |-> 0, src |-> CastSliceVertex(VerticesFrom(ms, 1))]
    ELSE [dst_offset |-> 0, src |-> CastSliceU32(IndicesFrom(ms, 1))]

\* the arguments of the two copy_buffer_data calls of load_mesh_data
UploadRegion(r, ms) ==
    IF r = 1
    THEN [dst_offset |-> 0, src |-> CastSliceVertex(VerticesFrom(ms, 1))]
    ELSE [dst_offset |-> VertexByteSize(ms),
          src |-> CastSliceU32(IndicesFrom(ms, 1))]

\* memory after `bytes` were written at byte offset `offset`
Overwrite(memory, offset, bytes) ==
    [b \in DOMAIN memory |->
        IF offset < b /\ b <= offset + Len(bytes)
        THEN bytes[b - offset] ELSE memory[b]]

\* the n bytes of memory from byte offset `offset` on
ReadBytes(memory, offset, n) ==
    [b \in 1 .. n |->
        IF (offset + b) \in DOMAIN memory THEN memory[offset + b] ELSE Undef]

Uninitialized(size) == [b \in 1 .. size |-> Undef]

\* a driver call of the upload
LdCall(op, object, offset, size) ==
    [op |-> op, object |-> object, offset |-> offset, size |-> size]
LdError(call) == [op |-> "error", object |-> call, offset |-> 0, size |-> 0]

\* the object-creating calls of load_mesh_data and create_staging_buffer;
\* a memory type that is not found counts as a failed allocate_memory
CreationCalls(ms) ==
    << LdCall("create_buffer", "mesh_data", 0, BufferByteSize(ms)),
       LdCall("allocate_memory", "mesh_data", 0, BufferByteSize(ms)),
       LdCall("bind_buffer_memory", "mesh_data", 0, 0),
       LdCall("create_buffer", "staging", 0, StagingByteSize(ms)),
       LdCall("allocate_memory", "staging", 0, StagingByteSize(ms)),
       LdCall("bind_buffer_memory", "staging", 0, 0),
       LdCall("create_fence", "staging", 0, 0) >>

\* Drop for StagingBuffer
DropStaging ==
    << LdCall("destroy_buffer", "staging", 0, 0),
       LdCall("free_memory", "staging", 0, 0),
       LdCall("destroy_fence", "staging", 0, 0) >>

\* a call of copy_buffer_data returns an error after `sofar`: the error goes
\* up through load_mesh_data and the staging buffer is dropped on the way
LoadFails(sofar, call) ==
    /\ load_pc' = "failed"
    /\ load_log' = load_log \o sofar \o << LdError(call) >> \o DropStaging
    /\ staging' = [staging EXCEPT !.alive = FALSE]
    /\ UNCHANGED <<region, mesh_data, transfer_queue>>

\* load_mesh_data from its start to the first copy_buffer_data call
LoadMeshData ==
    /\ new_pc = "load"
    /\ load_pc = "start"
    /\ LET calls == CreationCalls(meshes) IN
       \/ \E k \in 1 .. Len(calls) :      \* the k-th creation call fails
             /\ load_log' = SubSeq(calls, 1, k - 1) \o << LdError(calls[k].op) >>
             /\ load_pc' = "failed"
             /\ UNCHANGED <<staging, mesh_buffer, region>>
       \/ /\ load_log' = calls
          /\ mesh_buffer' = [size |-> BufferByteSize(meshes),
                             memory |-> Uninitialized(BufferByteSize(meshes))]
          /\ staging' = [size |-> StagingByteSize(meshes),
                         memory |-> Uninitialized(StagingByteSize(meshes)),
                         fence |-> FALSE, alive |-> TRUE]
          /\ region' = 1
          /\ load_pc' = "write"
    /\ UNCHANGED <<meshes, transfer_queue, mesh_data, frameVars, selectVars,
                   dropVars, newVars>>

\* copy_buffer_data: map the staging memory, copy src into it, unmap
HostWrite ==
    /\ load_pc = "write"
    /\ LET src == UploadRegion(region, meshes).src IN
       \/ LoadFails(<<>>, "map_memory")
       \/ /\ staging' = [staging EXCEPT !.memory = Overwrite(@, 0, src)]
          /\ load_log' = load_log \o
                << LdCall("map_memory", "staging", 0, Len(src)),
                   LdCall("copy_nonoverlapping", "staging", 0, Len(src)),
                   LdCall("unmap_memory", "staging", 0, 0) >>
          /\ load_pc' = "submit"
          /\ UNCHANGED <<region, mesh_data, transfer_queue>>
    /\ UNCHANGED <<meshes, mesh_buffer, frameVars, selectVars,
                   dropVars, newVars>>

\* copy_buffer_data: begin_single_time_command, cmd_copy_buffer and
\* Command::submit with the fence of the staging buffer
SubmitCopy ==
    /\ load_pc = "submit"
    /\ LET r == UploadRegion(region, meshes)
           allocate == LdCall("allocate_command_buffers", "transfer", 0, 0)
           begin == LdCall("begin_command_buffer", "transfer", 0, 0)
           copy == LdCall("cmd_copy_buffer", "mesh_data", r.dst_offset, Len(r.src))
           end == LdCall("end_command_buffer", "transfer", 0, 0)
       IN
       \/ LoadFails(<<>>, "allocate_command_buffers")
       \/ LoadFails(<< allocate >>, "begin_command_buffer")
       \/ LoadFails(<< allocate, begin, copy >>, "end_command_buffer")
       \/ LoadFails(<< allocate, begin, copy, end >>, "queue_submit")
       \/ /\ transfer_queue' = Append(transfer_queue,
                 [src_offset |-> 0, dst_offset |-> r.dst_offset,
                  size |-> Len(r.src)])
          /\ load_log' = load_log \o
                << allocate, begin, copy, end,
                   LdCall("queue_submit", "staging", 0, 0) >>
          /\ load_pc' = "wait"
          /\ UNCHANGED <<region, mesh_data, staging>>
    /\ UNCHANGED <<meshes, mesh_buffer, frameVars, selectVars,
                   dropVars, newVars>>

\* the transfer queue executes its oldest copy and signals the fence of the
\* submission; a copy out of a destroyed staging buffer reads undefined bytes
TransferComplete ==
    /\ transfer_queue # <<>>
    /\ LET c == Head(transfer_queue)
           data == IF staging.alive
                   THEN ReadBytes(staging.memory, c.src_offset, c.size)
                   ELSE Uninitialized(c.size)
       IN /\ mesh_buffer' = [mesh_buffer EXCEPT
                                !.memory = Overwrite(@, c.dst_offset, data)]
          /\ staging' = [staging EXCEPT !.fence = TRUE]
    /\ transfer_queue' = Tail(transfer_queue)
    /\ UNCHANGED <<meshes, load_pc, region, mesh_data, load_log, frameVars,
                   selectVars, dropVars, newVars>>

\* copy_buffer_data from wait_for_fences on, and load_mesh_data from the
\* return of copy_buffer_data to the next call or to its own return
WaitForCopy ==
    /\ load_pc = "wait"
    /\ LET wait == LdCall("wait_for_fences", "staging", 0, 0)
           reset == LdCall("reset_fences", "staging", 0, 0)
           free == LdCall("free_command_buffers", "transfer", 0, 0)
       IN
       \/ LoadFails(<<>>, "wait_for_fences")
       \/ /\ staging.fence
          /\ \/ LoadFails(<< wait >>, "reset_fences")
             \/ /\ region = 1
                /\ staging' = [staging EXCEPT !.fence = FALSE]
                /\ load_log' = load_log \o << wait, reset, free >>
                /\ region' = 2
                /\ load_pc' = "write"
                /\ UNCHANGED <<mesh_data, transfer_queue>>
             \/ /\ region = 2
                /\ staging' = [staging EXCEPT !.fence = FALSE, !.alive = FALSE]
                /\ load_log' = load_log \o << wait, reset, free >> \o DropStaging
                /\ mesh_data' = Some([vertex_offset |-> 0,
                                      index_offset |-> VertexByteSize(meshes),
                                      mesh_offsets |-> MeshOffsets(Counts(meshes))])
                /\ load_pc' = "done"
                /\ UNCHANGED <<region, transfer_queue>>
    /\ UNCHANGED <<meshes, mesh_buffer, frameVars, selectVars,
                   dropVars, newVars>>

\* ------------------------------------------------ the meshes given to it
\* the m-th mesh of a list, with nv vertices and ni indices; every vertex
\* and every index of a list has a value of its own
MeshOf(m, nv, ni) ==
    [vertices |-> [i \in 1 .. nv |-> (16 * m) + i],
     indices |-> [i \in 1 .. ni |-> (256 * m) + (i - 1)]]

MeshCounts == [vertices : 0 .. MaxElems, indices : 0 .. MaxElems]

MeshLists ==
    {[m \in 1 .. Len(c) |-> MeshOf(m, c[m].vertices, c[m].indices)] :
        c \in SeqsUpTo(MeshCounts, MaxMeshes)}

\* the upload variables while no upload is running
LoadAtRest ==
    /\ meshes = <<>>
    /\ load_pc = "done"
    /\ region = 1
    /\ staging = [size |-> 0, memory |-> <<>>, fence |-> FALSE, alive |-> FALSE]
    /\ mesh_buffer = [size |-> 0, memory |-> <<>>]
    /\ transfer_queue = <<>>
    /\ mesh_data = None
    /\ load_log = <<>>

\* ================================================================ teardown
\* an object of the backend; index tells the per-image objects apart
Obj(kind, index) == [kind |-> kind, index |-> index]

\* one object of a kind per swapchain image, in the order of the vector
PerImage(kind) == [i \in 1 .. ImageCount |-> Obj(kind, i - 1)]

\* the objects destroy_swapchain destroys, in its order
DestroySwapchain ==
    PerImage("framebuffer") \o PerImage("view")
    \o << Obj("depth_buffer.view", 0), Obj("depth_buffer.image", 0),
          Obj("depth_buffer.memory", 0) >>
    \o PerImage("image_draw_finished") \o PerImage("image_draw_ready")
    \o PerImage("image_available")
    \o << Obj("swapchain", 0), Obj("swapchain.pool", 0) >>

\* DeviceDropOrder that destroys the pipeline layout before the pipeline
DeviceDropOrder_LayoutFirst ==
    << Obj("pipeline_layout", 0), Obj("pipeline", 0),
       Obj("mesh_data.buffer", 0), Obj("mesh_data.memory", 0) >>
    \o DestroySwapchain
    \o << Obj("command_pools.graphics", 0), Obj("command_pools.compute", 0),
          Obj("command_pools.transfer", 0), Obj("render_pass", 0),
          Obj("device", 0) >>

\* the objects Drop for Device destroys after device_wait_idle, in its order
DeviceDropOrder ==
    << Obj("pipeline", 0), Obj("pipeline_layout", 0),
       Obj("mesh_data.buffer", 0), Obj("mesh_data.memory", 0) >>
    \o DestroySwapchain
    \o << Obj("command_pools.graphics", 0), Obj("command_pools.compute", 0),
          Obj("command_pools.transfer", 0), Obj("render_pass", 0),
          Obj("device", 0) >>

\* the Backend exists and nothing of it was destroyed
BackendAlive ==
    /\ drop_pc = "alive"
    /\ destroyed = <<>>

\* the Device and its Swapchain are gone: what was their state is no state
\* of the program any more
DeviceGone ==
    /\ current_frame' = <<>>
    /\ frame' = 0
    /\ image_available' = [i \in Images |-> TRUE]
    /\ image_owner' = [i \in Images |-> "engine"]
    /\ graphics_queue' = <<>>
    /\ acquiring' = <<>>
    /\ log' = <<>>
    /\ draw_calls' = <<>>
    /\ last_call' = [op |-> "drop", was_open |-> FALSE]
    /\ last_result' = "unit"
    /\ UNCHANGED <<pc, driver_failed, mesh_offsets>>

\* DropDevice that destroys the objects without waiting for the idle device
DropDevice_NoWait ==
    /\ drop_pc = "alive"
    /\ pc = "idle"
    /\ \/ /\ panicked
          /\ drop_pc' = "aborted"
          /\ UNCHANGED <<destroyed, panicked>>
       \/ /\ ~panicked
          /\ panicked' = TRUE
          /\ drop_pc' = "device_dropped"
          /\ UNCHANGED destroyed
       \/ /\ destroyed' = destroyed \o DeviceDropOrder
          /\ drop_pc' = "device_dropped"
          /\ UNCHANGED panicked
    /\ DeviceGone
    /\ UNCHANGED <<selectVars, loadVars, newVars>>

\* the Backend is dropped (by its owner, or while a panic unwinds): its first
\* field with a destructor is the Device.  Drop for Device waits until the
\* device is idle and destroys its objects; when device_wait_idle fails,
\* unwrap panics, nothing of the device is destroyed and the other fields are
\* still dropped, unless the thread was panicking already, which aborts.
DropDevice ==
    /\ drop_pc = "alive"
    /\ pc = "idle"
    /\ \/ /\ panicked                  \* a panic while panicking
          /\ drop_pc' = "aborted"
          /\ UNCHANGED <<destroyed, panicked>>
       \/ /\ ~panicked                 \* device_wait_idle fails
          /\ panicked' = TRUE
          /\ drop_pc' = "device_dropped"
          /\ UNCHANGED destroyed
       \/ /\ graphics_queue = <<>>     \* the device is idle
          /\ destroyed' = destroyed \o DeviceDropOrder
          /\ drop_pc' = "device_dropped"
          /\ UNCHANGED panicked
    /\ DeviceGone
    /\ UNCHANGED <<selectVars, loadVars, newVars>>

\* Drop for Surface
DropSurface ==
    /\ drop_pc = "device_dropped"
    /\ destroyed' = Append(destroyed, Obj("surface", 0))
    /\ drop_pc' = "surface_dropped"
    /\ UNCHANGED <<frameVars, selectVars, loadVars, newVars>>

\* Drop for Messenger
DropMessenger ==
    /\ drop_pc = "surface_dropped"
    /\ destroyed' = Append(destroyed, Obj("messenger", 0))
    /\ drop_pc' = "messenger_dropped"
    /\ UNCHANGED <<frameVars, selectVars, loadVars, newVars>>

\* Drop for Instance
DropInstance ==
    /\ drop_pc = "messenger_dropped"
    /\ destroyed' = Append(destroyed, Obj("instance", 0))
    /\ drop_pc' = "done"
    /\ UNCHANGED <<frameVars, selectVars, loadVars, newVars>>

\* ============================================================ construction
\* a step of the construction: the call and the object it creates, if any;
\* `fails` is how the call fails: it returns an error, or it panics
Step(call, objects, fails) == [call |-> call, objects |-> objects, fails |-> fails]

\* Backend::new before Device::new
InstanceObjects == << Obj("instance", 0) >>
MessengerObjects == << Obj("messenger", 0) >>
SurfaceObjects == << Obj("surface", 0) >>

\* Device::new from enumerate_physical_devices to create_render_pass
DeviceSteps ==
    << Step("enumerate_physical_devices", <<>>, "Err"),
       Step("is_suitable", <<>>, "Err"),
       Step("create_device", << Obj("device", 0) >>, "Err"),
       Step("create_command_pool", << Obj("command_pools.graphics", 0) >>, "Err"),
       Step("create_command_pool", << Obj("command_pools.compute", 0) >>, "Err"),
       Step("create_command_pool", << Obj("command_pools.transfer", 0) >>, "Err"),
       Step("create_render_pass", << Obj("render_pass", 0) >>, "Err") >>

\* one creating call per swapchain image, in the order of the iterator
PerImageSteps(call, kind) ==
    [i \in 1 .. ImageCount |-> Step(call, << Obj(kind, i - 1) >>, "Err")]

\* Device::create_swapchain up to create_swapchain_command_buffers; a memory
\* type that is not found counts as a failed allocate_memory
SwapchainSteps ==
    << Step("create_swapchain", << Obj("swapchain", 0) >>, "Err"),
       Step("get_swapchain_images", <<>>, "Err") >>
    \o PerImageSteps("create_image_view", "view")
    \o << Step("create_image", << Obj("depth_buffer.image", 0) >>, "Err"),
          Step("allocate_memory", << Obj("depth_buffer.memory", 0) >>, "Err"),
          Step("bind_image_memory", <<>>, "Err"),
          Step("create_image_view", << Obj("depth_buffer.view", 0) >>, "Err") >>
    \o PerImageSteps("create_framebuffer", "framebuffer")
    \o << Step("create_command_pool", << Obj("swapchain.pool", 0) >>, "Err"),
          Step("allocate_command_buffers", <<>>, "Err") >>

\* Device::create_swapchain_sync_primitives: each of the three vectors is
\* collected up to its first failing call, and the error is looked at only
\* after all three; n is the number of objects of each kind that were created
SyncObjects(n) ==
    SubSeq(PerImage("image_available"), 1, n.image_available)
    \o SubSeq(PerImage("image_draw_ready"), 1, n.image_draw_ready)
    \o SubSeq(PerImage("image_draw_finished"), 1, n.image_draw_finished)

SyncOutcomes ==
    [image_available : 0 .. ImageCount, image_draw_ready : 0 .. ImageCount,
     image_draw_finished : 0 .. ImageCount]

\* Device::create_layout and Device::create_pipeline; File::open(path).unwrap()
\* panics when a shader file cannot be opened
PipelineSteps ==
    << Step("create_pipeline_layout", << Obj("pipeline_layout", 0) >>, "Err"),
       Step("File::open", <<>>, "panic"),
       Step("create_shader_module", << Obj("shader.vertex", 0) >>, "Err"),
       Step("File::open", <<>>, "panic"),
       Step("create_shader_module", << Obj("shader.fragment", 0) >>, "Err"),
       Step("create_graphics_pipelines", << Obj("pipeline", 0) >>, "Err") >>

\* the shader modules create_pipeline destroys before it returns Ok
ShaderModules == {Obj("shader.vertex", 0), Obj("shader.fragment", 0)}

\* the objects the first k steps have created
RECURSIVE ObjectsOf(_, _)
ObjectsOf(steps, k) ==
    IF k = 0 THEN <<>> ELSE ObjectsOf(steps, k - 1) \o steps[k].objects

\* the elements of seq that are not in the set S, in order
RECURSIVE Without(_, _)
Without(seq, S) ==
    IF seq = <<>> THEN <<>>
    ELSE IF Head(seq) \in S THEN Without(Tail(seq), S)
         ELSE << Head(seq) >> \o Without(Tail(seq), S)

\* the objects the calls of load_mesh_data have created and not destroyed
\* (command buffers belong to their pool)
RECURSIVE LoadObjects(_, _)
LoadObjects(l, k) ==
    IF k = 0 THEN <<>>
    ELSE LET c == l[k]
             before == LoadObjects(l, k - 1)
             kind == IF c.op \in {"create_buffer", "destroy_buffer"}
                     THEN IF c.object = "mesh_data" THEN "mesh_data.buffer"
                                                    ELSE "staging.buffer"
                     ELSE IF c.op \in {"allocate_memory", "free_memory"}
                     THEN IF c.object = "mesh_data" THEN "mesh_data.memory"
                                                    ELSE "staging.memory"
                     ELSE "staging.fence"
         IN IF c.op \in {"create_buffer", "allocate_memory", "create_fence"}
            THEN Append(before, Obj(kind, 0))
            ELSE IF c.op \in {"destroy_buffer", "free_memory", "destroy_fence"}
            THEN Without(before, {Obj(kind, 0)})
            ELSE before

\* the construction returns an error, or unwinds with a panic, after it has
\* created `objects`: nothing destroys them, and the locals of Backend::new
\* that exist are dropped in reverse order of declaration; `dropped` names
\* the last of device, surface, messenger and instance that has no drop to
\* run, as if the drop of a Backend had come that far
NewFails(objects, fails, dropped) ==
    /\ created' = created \o objects
    /\ new_pc' = IF fails = "panic" THEN "panicked" ELSE "failed"
    /\ drop_pc' = dropped
    /\ UNCHANGED destroyed

\* the steps of one stage of the construction, up to its first failing step
NewStage(steps, next) ==
    \/ \E k \in 1 .. Len(steps) :
          NewFails(ObjectsOf(steps, k - 1), steps[k].fails, "device_dropped")
    \/ /\ created' = created \o ObjectsOf(steps, Len(steps))
       /\ new_pc' = next
       /\ UNCHANGED dropVars

\* Instance::new
NewInstance ==
    /\ new_pc = "start"
    /\ \/ NewFails(<<>>, "Err", "done")
       \/ /\ created' = created \o InstanceObjects
          /\ new_pc' = "instance"
          /\ UNCHANGED dropVars
    /\ UNCHANGED <<frameVars, selectVars, loadVars>>

\* MessengerBuilder::build
NewMessenger ==
    /\ new_pc = "instance"
    /\ \/ NewFails(<<>>, "Err", "messenger_dropped")
       \/ /\ created' = created \o MessengerObjects
          /\ new_pc' = "messenger"
          /\ UNCHANGED dropVars
    /\ UNCHANGED <<frameVars, selectVars, loadVars>>

\* Surface::new
NewSurface ==
    /\ new_pc = "messenger"
    /\ \/ NewFails(<<>>, "Err", "surface_dropped")
       \/ /\ created' = created \o SurfaceObjects
          /\ new_pc' = "surface"
          /\ UNCHANGED dropVars
    /\ UNCHANGED <<frameVars, selectVars, loadVars>>

\* Device::new up to create_render_pass
NewDevice ==
    /\ new_pc = "surface"
    /\ NewStage(DeviceSteps, "device")
    /\ UNCHANGED <<frameVars, selectVars, loadVars>>

\* Device::create_swapchain
NewSwapchain ==
    /\ new_pc = "device"
    /\ \/ \E k \in 1 .. Len(SwapchainSteps) :
             NewFails(ObjectsOf(SwapchainSteps, k - 1), "Err", "device_dropped")
       \/ \E n \in SyncOutcomes :
             LET objects == ObjectsOf(SwapchainSteps, Len(SwapchainSteps))
                            \o SyncObjects(n)
             IN IF \E kind \in DOMAIN n : n[kind] < ImageCount
                THEN NewFails(objects, "Err", "device_dropped")
                ELSE /\ created' = created \o objects
                     /\ new_pc' = "swapchain"
                     /\ UNCHANGED dropVars
    /\ UNCHANGED <<frameVars, selectVars, loadVars>>

\* Device::create_layout and Device::create_pipeline
NewPipeline ==
    /\ new_pc = "swapchain"
    /\ \/ \E k \in 1 .. Len(PipelineSteps) :
             NewFails(ObjectsOf(PipelineSteps, k - 1), PipelineSteps[k].fails,
                      "device_dropped")
       \/ /\ created' = created \o
                Without(ObjectsOf(PipelineSteps, Len(PipelineSteps)), ShaderModules)
          /\ new_pc' = "load"
          /\ UNCHANGED dropVars
    /\ UNCHANGED <<frameVars, selectVars, loadVars>>

\* the return of load_mesh_data into Device::new, and of Device::new into
\* Backend::new
NewBackend ==
    /\ new_pc = "load"
    /\ load_pc \in {"done", "failed"}
    /\ LET objects == LoadObjects(load_log, Len(load_log)) IN
       IF load_pc = "failed"
       THEN NewFails(objects, "Err", "device_dropped")
       ELSE /\ created' = created \o objects
            /\ new_pc' = "built"
            /\ UNCHANGED dropVars
    /\ UNCHANGED <<frameVars, selectVars, loadVars>>

\* what a built Backend has created
BuiltBeforeLoad ==
    InstanceObjects \o MessengerObjects \o SurfaceObjects
    \o ObjectsOf(DeviceSteps, Len(DeviceSteps))
    \o ObjectsOf(SwapchainSteps, Len(SwapchainSteps))
    \o SyncObjects([image_available |-> ImageCount, image_draw_ready |-> ImageCount,
                    image_draw_finished |-> ImageCount])
    \o Without(ObjectsOf(PipelineSteps, Len(PipelineSteps)), ShaderModules)

BackendBuilt ==
    /\ new_pc = "built"
    /\ created = BuiltBeforeLoad
                 \o << Obj("mesh_data.buffer", 0), Obj("mesh_data.memory", 0) >>

InitFrame ==
    /\ current_frame = <<>>
    /\ frame = 0
    /\ image_available = [i \in Images |-> TRUE]
    /\ image_owner = [i \in Images |-> "engine"]
    /\ graphics_queue = <<>>
    /\ pc = "idle"
    /\ acquiring = <<>>
    /\ log = <<>>
    /\ last_call = [op |-> "new", was_open |-> FALSE]
    /\ last_result = "Ok"
    /\ driver_failed = FALSE
    /\ panicked = FALSE
    /\ mesh_offsets = MeshOffsets(SceneMeshes)
    /\ draw_calls = <<>>

Init ==
    /\ InitFrame
    /\ devices = <<>>
    /\ selection = <<>>
    /\ swapchain_info = <<>>
    /\ LoadAtRest
    /\ BackendAlive
    /\ BackendBuilt

Next ==
    \/ BeginFrame
    \/ BeginFrameResume
    \/ Draw
    \/ EndFrame
    \/ GpuComplete

Spec == Init /\ [][Next]_vars

\* the selection of Device::new run on every device list
InitSelect ==
    /\ InitFrame
    /\ devices \in DeviceLists
    /\ selection = None
    /\ swapchain_info = None
    /\ LoadAtRest
    /\ BackendAlive
    /\ new_pc = "surface"
    /\ created = InstanceObjects \o MessengerObjects \o SurfaceObjects

NextSelect ==
    \/ SelectDevice
    \/ CreateSwapchain

SpecSelect == InitSelect /\ [][NextSelect]_vars

\* the frames of a backend whose driver calls all succeed; the graphics queue
\* completes what was submitted to it, and wait_for_fences returns once the
\* fence is signaled
NextLive ==
    \/ BeginFrame /\ ~driver_failed'
    \/ BeginFrameResume /\ ~driver_failed'
    \/ Draw /\ ~driver_failed'
    \/ EndFrame /\ ~driver_failed'
    \/ GpuComplete

SpecLive ==
    /\ Init
    /\ [][NextLive]_vars
    /\ WF_vars(GpuComplete)
    /\ WF_vars(BeginFrameResume /\ ~driver_failed')

\* load_mesh_data run on every mesh list
InitLoad ==
    /\ InitFrame
    /\ devices = <<>>
    /\ selection = None
    /\ swapchain_info = None
    /\ meshes \in MeshLists
    /\ BackendAlive
    /\ new_pc = "load"
    /\ created = BuiltBeforeLoad
    /\ load_pc = "start"
    /\ region = 1
    /\ staging = [size |-> 0, memory |-> <<>>, fence |-> FALSE, alive |-> FALSE]
    /\ mesh_buffer = [size |-> 0, memory |-> <<>>]
    /\ transfer_queue = <<>>
    /\ mesh_data = None
    /\ load_log = <<>>

NextLoad ==
    \/ LoadMeshData
    \/ HostWrite
    \/ SubmitCopy
    \/ TransferComplete
    \/ WaitForCopy

SpecLoad == InitLoad /\ [][NextLoad]_vars

\* Backend::new run on every mesh list
InitNew ==
    /\ InitFrame
    /\ devices = <<>>
    /\ selection = None
    /\ swapchain_info = None
    /\ meshes \in MeshLists
    /\ BackendAlive
    /\ new_pc = "start"
    /\ created = <<>>
    /\ load_pc = "start"
    /\ region = 1
    /\ staging = [size |-> 0, memory |-> <<>>, fence |-> FALSE, alive |-> FALSE]
    /\ mesh_buffer = [size |-> 0, memory |-> <<>>]
    /\ transfer_queue = <<>>
    /\ mesh_data = None
    /\ load_log = <<>>

\* the construction, and the drops that run when it fails
NextNew ==
    \/ NewInstance
    \/ NewMessenger
    \/ NewSurface
    \/ NewDevice
    \/ NewSwapchain
    \/ NewPipeline
    \/ LoadMeshData
    \/ HostWrite
    \/ SubmitCopy
    \/ TransferComplete
    \/ WaitForCopy
    \/ NewBackend
    \/ DropSurface
    \/ DropMessenger
    \/ DropInstance

SpecNew == InitNew /\ [][NextNew]_vars

\* the frames of a backend and its drop
NextDrop ==
    \/ BeginFrame
    \/ BeginFrameResume
    \/ Draw
    \/ EndFrame
    \/ GpuComplete
    \/ DropDevice
    \/ DropSurface
    \/ DropMessenger
    \/ DropInstance

SpecDrop == Init /\ [][NextDrop]_vars

\* ================================================================== claims

\* what a Renderer call can change in the backend and in the driver
backendVars == <<current_frame, frame, image_available, image_owner,
                 graphics_queue, pc, acquiring, log, driver_failed, panicked,
                 mesh_offsets>>

AcquiredImages == {i \in Images : image_owner[i] = "app"}

C2_DrawWithoutFrameIsIgnored ==
    [][ (last_call' = [op |-> "draw", was_open |-> FALSE])
            => UNCHANGED backendVars ]_vars

C2_Witness ==
    /\ last_call = [op |-> "draw", was_open |-> FALSE]
    /\ last_result = "unit"
    /\ current_frame = <<>>
    /\ log # <<>>

\* C3: end_frame called while no frame is open returns Ok, submits nothing,
\* presents nothing and leaves the slot counter alone; and every end_frame
\* leaves no frame open, so a second end_frame in a row is such a call.
C3_EndFrameWithoutFrameIsNoOp ==
    [][ /\ (last_call' = [op |-> "end_frame", was_open |-> FALSE])
            => (last_result' = "Ok" /\ UNCHANGED backendVars)
        /\ last_call'.op = "end_frame" => current_frame' = <<>>
      ]_vars

\* an end_frame with no open frame, made after a frame was presented
C3_Witness ==
    /\ last_call = [op |-> "end_frame", was_open |-> FALSE]
    /\ last_result = "Ok"
    /\ log # <<>>
    /\ log[Len(log)].op = "queue_present"

\* submissions of the graphics queue that use frame slot s and are not
\* completed yet
PendingOfSlot(s) ==
    {k \in 1 .. Len(graphics_queue) : graphics_queue[k].command = s}

\* C4: no two acquisitions are outstanding for one frame slot: while a
\* submission of a slot is pending, the slot's semaphores are not handed to
\* a new acquire and the slot's command buffer is not recording again.
C4_NoTwoAcquisitionsPerSlot ==
    ~driver_failed =>
        /\ pc = "wait_fence" => PendingOfSlot(acquiring[1].draw_ready) = {}
        /\ current_frame # <<>> => PendingOfSlot(current_frame[1].command) = {}

\* the part of C4 the code does keep: a command buffer that is recording is
\* not part of a pending submission
CommandBufferNotReusedWhilePending ==
    (~driver_failed /\ current_frame # <<>>)
        => PendingOfSlot(current_frame[1].command) = {}

\* ---- C5: the driver calls of a frame
Tag(e) ==
    IF e.op = "cmd_push_constants"
    THEN (IF e.offset = CAMERA_PUSH_OFFSET THEN "push_camera" ELSE "push_world")
    ELSE e.op

Tags(l) == [k \in 1 .. Len(l) |-> Tag(l[k])]

FrameHeader ==
    << "acquire_next_image", "wait_for_fences", "reset_fences",
       "begin_command_buffer", "cmd_begin_render_pass", "cmd_bind_pipeline",
       "push_camera", "cmd_bind_vertex_buffers", "cmd_bind_index_buffer" >>

FrameTrailer ==
    << "cmd_end_render_pass", "end_command_buffer", "queue_submit",
       "queue_present" >>

RECURSIVE DrawTags(_)
DrawTags(k) ==
    IF k = 0 THEN <<>> ELSE << "push_world", "cmd_draw_indexed" >> \o DrawTags(k - 1)

FramePattern(k) == FrameHeader \o DrawTags(k) \o FrameTrailer

IsPrefix(a, b) == Len(a) <= Len(b) /\ a = SubSeq(b, 1, Len(a))

\* the log is the beginning of one frame with k draws
FramePrefix(l) == \E k \in 0 .. MaxDraws : IsPrefix(Tags(l), FramePattern(k))
\* the log is one complete frame
FrameComplete(l) == \E k \in 0 .. MaxDraws : Tags(l) = FramePattern(k)
\* the render pass of the log is open: the header is there, no trailer yet
RenderPassOpen(l) ==
    \E k \in 0 .. MaxDraws : Tags(l) = FrameHeader \o DrawTags(k)

\* every command of one frame goes to the command buffer of the slot passed
\* to its acquire, and submit and present belong to that acquire
OwnAcquire(l) ==
    \A k \in 2 .. Len(l) :
        /\ "command" \in DOMAIN l[k] => l[k].command = l[1].semaphore
        /\ l[k].op = "queue_submit" =>
              l[k].wait = l[1].semaphore /\ l[k].fence = l[1].image_index
        /\ l[k].op = "queue_present" => l[k].image_index = l[1].image_index

FrameLogOk ==
    ~driver_failed =>
        /\ FramePrefix(log)
        /\ OwnAcquire(log)
        /\ current_frame # <<>> => RenderPassOpen(log)
        /\ (current_frame = <<>> /\ pc = "idle") => (log = <<>> \/ FrameComplete(log))
        /\ pc = "wait_fence" => Len(log) = 1

\* the log grows by appending, and a new frame starts only after a complete one
FrameLogStep ==
    ~driver_failed' =>
        \/ IsPrefix(log, log')
        \/ (log = <<>> \/ FrameComplete(log)) /\ Len(log') = 1

\* C5: whatever the order of begin_frame, draw and end_frame calls, as long
\* as no driver call fails the driver calls form complete frames: acquire,
\* fence wait, fence reset, begin command buffer, begin render pass, bind
\* pipeline, push camera, bind geometry buffers, (push world, indexed draw)*,
\* end render pass, end command buffer, submit, present; the last frame may
\* still be open.
C5_CallsFormCompleteFrames ==
    [][FrameLogOk' /\ FrameLogStep]_vars

\* a frame with draws was completed and misuse calls followed it
C5_Witness ==
    /\ ~driver_failed
    /\ current_frame = <<>>
    /\ Tags(log) = FramePattern(MaxDraws)
    /\ last_call = [op |-> "draw", was_open |-> FALSE]

\* ---- device selection
\* the outcome of a selection that got a device list from the driver
Selected ==
    selection # None
    /\ (Unwrap(selection).status = "Err"
        => Unwrap(selection).error # "enumerate_physical_devices")

SelectedOk == selection # None /\ Unwrap(selection).status = "Ok"

Config == Unwrap(selection).config

DepthUsable(d, f) ==
    "DEPTH_STENCIL_ATTACHMENT" \in d.format_properties[f].optimal_tiling_features

\* the checks of the device selector (spec 4.1), stated on the answers
Passes(d) ==
    /\ d.device_type \in {"INTEGRATED_GPU", "DISCRETE_GPU"}
    /\ d.extensions # None
    /\ "VK_KHR_swapchain" \in {Unwrap(d.extensions)[k] : k \in 1 .. Len(Unwrap(d.extensions))}
    /\ d.features["sampler_anisotropy"]
    /\ \E k \in 1 .. Len(d.queue_families) : "GRAPHICS" \in d.queue_families[k].queue_flags
    /\ \E k \in 1 .. Len(d.queue_families) : "TRANSFER" \in d.queue_families[k].queue_flags
    /\ \E k \in 1 .. Len(d.queue_families) : d.queue_families[k].surface_support = Some(TRUE)
    /\ d.present_modes # None
    /\ d.surface_formats # None
    /\ d.surface_capabilities # None
    /\ \E f \in DepthFormats : DepthUsable(d, f)

PassingDevices == {k \in 1 .. Len(devices) : Passes(devices[k])}

\* C6: selection returns the configuration of the first device, in
\* enumeration order, that passes every check, and fails with the 'no
\* suitable device' error exactly when no enumerated device passes.
C6_FirstPassingDeviceIsSelected ==
    Selected =>
        IF PassingDevices = {}
        THEN /\ Unwrap(selection).status = "Err"
             /\ Unwrap(selection).error = "Failed to pick suitable physical device"
        ELSE /\ Unwrap(selection).status = "Ok"
             /\ Config.device \in PassingDevices
             /\ \A k \in PassingDevices : Config.device <= k

\* two passing devices that differ, behind one that fails: the second is taken
C6_Witness ==
    /\ SelectedOk
    /\ Len(devices) = 2
    /\ ~Passes(devices[1])
    /\ Config.device = 2

\* C7: the selected device has the swapchain extension and the
\* sampler-anisotropy feature, its four resolved queue-family indices exist
\* on the device with the capability they were resolved for, and the present
\* family is one the device reports as supporting the surface.
C7_SelectedDeviceHasRequirements ==
    SelectedOk =>
        LET d == devices[Config.device]
            q == Config.queue_families
            Family(i) == d.queue_families[i + 1]
        IN /\ d.device_type \in {"INTEGRATED_GPU", "DISCRETE_GPU"}
           /\ d.extensions # None
           /\ Contains(Unwrap(d.extensions), "VK_KHR_swapchain")
           /\ d.features["sampler_anisotropy"]
           /\ Config.enabled_features["sampler_anisotropy"]
           /\ \A i \in {q.graphics, q.compute, q.transfer, q.present} :
                  i \in 0 .. (Len(d.queue_families) - 1)
           /\ "GRAPHICS" \in Family(q.graphics).queue_flags
           /\ "GRAPHICS" \in Family(q.compute).queue_flags
           /\ "TRANSFER" \in Family(q.transfer).queue_flags
           /\ Family(q.present).surface_support = Some(TRUE)

\* a selected device whose present family is not its graphics family
C7_Witness ==
    /\ SelectedOk
    /\ Len(devices[Config.device].queue_families) = MaxFamilies
    /\ Config.queue_families.present # Config.queue_families.graphics
    /\ Config.queue_families.transfer # Config.queue_families.graphics

PreferredSurfaceFormatNames == {"R8G8B8A8_UNORM", "B8G8R8A8_UNORM"}

\* C9: if the device's surface-format list holds a preferred format
\* (R8G8B8A8_UNORM, B8G8R8A8_UNORM), the chosen surface format is a preferred
\* entry of that list, wherever it stands; if it holds none, the chosen format
\* is the first reported one.
C9_PreferredSurfaceFormatIsChosen ==
    SelectedOk =>
        LET reported == Unwrap(devices[Config.device].surface_formats)
            chosen == Config.surface_format
        IN IF \E k \in 1 .. Len(reported) :
                  reported[k].format \in PreferredSurfaceFormatNames
           THEN /\ chosen.format \in PreferredSurfaceFormatNames
                /\ \E k \in 1 .. Len(reported) : reported[k] = chosen
           ELSE chosen = reported[1]

\* the only preferred format stands last in the list and is chosen
C9_Witness ==
    /\ SelectedOk
    /\ LET reported == Unwrap(devices[Config.device].surface_formats) IN
       /\ Len(reported) = MaxFormats
       /\ \A k \in 1 .. (MaxFormats - 1) :
              reported[k].format \notin PreferredSurfaceFormatNames
       /\ reported[MaxFormats].format \in PreferredSurfaceFormatNames
       /\ Config.surface_format = reported[MaxFormats]

\* position of a depth format in the fixed order
DepthRank(f) == CHOOSE k \in 1 .. 4 :
    << "D32_SFLOAT", "D24_UNORM_S8_UINT", "D16_UNORM", "D16_UNORM_S8_UINT" >>[k] = f

\* C10: the resolved depth format is the first of D32_SFLOAT,
\* D24_UNORM_S8_UINT, D16_UNORM, D16_UNORM_S8_UINT that the device reports as
\* usable as an optimal-tiled depth-stencil attachment, and a device on which
\* none of the four is usable is rejected.
C10_FirstUsableDepthFormat ==
    /\ SelectedOk =>
          LET d == devices[Config.device] IN
          /\ Config.depth_format \in DepthFormats
          /\ DepthUsable(d, Config.depth_format)
          /\ \A f \in DepthFormats :
                 DepthRank(f) < DepthRank(Config.depth_format) => ~DepthUsable(d, f)
    /\ Selected =>
          \A k \in 1 .. Len(devices) :
              (\A f \in DepthFormats : ~DepthUsable(devices[k], f))
                  => ~(SelectedOk /\ Config.device = k)

\* only the last format of the order is usable with optimal tiling, the
\* earlier ones only with linear tiling
C10_Witness ==
    /\ SelectedOk
    /\ Config.depth_format = "D16_UNORM_S8_UINT"
    /\ \A f \in DepthFormats \ {"D16_UNORM_S8_UINT"} :
           "DEPTH_STENCIL_ATTACHMENT" \in
               devices[Config.device].format_properties[f].linear_tiling_features

\* C11: the resolved present mode is MAILBOX exactly when the device's
\* present-mode list holds MAILBOX, and FIFO otherwise; the first device that
\* passes the other checks is selected whatever its present modes are, so a
\* device reporting only FIFO is selected with FIFO.
C11_PresentModeMailboxElseFifo ==
    Selected =>
        \A k \in PassingDevices :
            (\A j \in PassingDevices : k <= j) =>
                LET modes == Unwrap(devices[k].present_modes)
                    advertised == {modes[i] : i \in 1 .. Len(modes)}
                IN /\ SelectedOk
                   /\ Config.device = k
                   /\ Config.present_mode \in {"MAILBOX", "FIFO"}
                   /\ Config.present_mode = "MAILBOX" <=> "MAILBOX" \in advertised
                   /\ advertised = {"FIFO"} => Config.present_mode = "FIFO"

\* MAILBOX stands last in the list, behind FIFO, and is chosen
C11_Witness ==
    /\ SelectedOk
    /\ LET modes == Unwrap(devices[Config.device].present_modes) IN
       /\ Len(modes) >= 2
       /\ modes[1] = "FIFO"
       /\ modes[Len(modes)] = "MAILBOX"
       /\ Config.present_mode = "MAILBOX"

\* ---- mesh upload
Loaded == mesh_data # None

\* the vertices of the meshes before the m-th, as (mesh, position) pairs
VerticesBefore(m) ==
    {p \in (1 .. (m - 1)) \X (1 .. MaxElems) : p[2] <= Len(meshes[p[1]].vertices)}

\* the indices of the meshes before the m-th, as (mesh, position) pairs
IndicesBefore(m) ==
    {p \in (1 .. (m - 1)) \X (1 .. MaxElems) : p[2] <= Len(meshes[p[1]].indices)}

\* C12: after load_mesh_data the MeshOffset table has one entry per mesh, in
\* list order, and entry i holds the number of vertices of the meshes before
\* mesh i, the number of indices of the meshes before mesh i, and the number
\* of indices of mesh i.
C12_MeshOffsetTable ==
    Loaded =>
        LET table == Unwrap(mesh_data).mesh_offsets IN
        /\ Len(table) = Len(meshes)
        /\ \A i \in 1 .. Len(meshes) :
              /\ table[i].vertex_offset = Cardinality(VerticesBefore(i))
              /\ table[i].index_offset = Cardinality(IndicesBefore(i))
              /\ table[i].index_count = Len(meshes[i].indices)

\* a loaded list whose first mesh has more indices than vertices and whose
\* last mesh starts behind it
C12_Witness ==
    /\ Loaded
    /\ Len(meshes) = MaxMeshes
    /\ Len(meshes[1].vertices) > 0
    /\ Len(meshes[1].indices) > Len(meshes[1].vertices)
    /\ Unwrap(mesh_data).mesh_offsets[MaxMeshes].vertex_offset > 0
    /\ Unwrap(mesh_data).mesh_offsets[MaxMeshes].index_count > 0

\* the u32 read back from four bytes, least significant byte first
U32At(memory, offset) ==
    memory[offset + 1][2] + (256 * memory[offset + 2][2])
    + (65536 * memory[offset + 3][2]) + (16777216 * memory[offset + 4][2])

\* C13: after load_mesh_data the buffer holds the bytes of all vertices from
\* byte 0 on and the bytes of all indices from byte vertex_byte_size on, and
\* nothing else; reading mesh i back at its recorded offsets gives the
\* vertices and the indices of mesh i.
C13_UploadRoundTrip ==
    Loaded =>
        LET data == Unwrap(mesh_data)
            table == data.mesh_offsets
            memory == mesh_buffer.memory
            vertex_byte_size == VertexSize * Cardinality(VerticesBefore(Len(meshes) + 1))
            index_byte_size == IndexSize * Cardinality(IndicesBefore(Len(meshes) + 1))
        IN /\ data.vertex_offset = 0
           /\ data.index_offset = vertex_byte_size
           /\ Len(memory) = vertex_byte_size + index_byte_size
           /\ ReadBytes(memory, 0, vertex_byte_size)
                  = CastSliceVertex(VerticesFrom(meshes, 1))
           /\ ReadBytes(memory, vertex_byte_size, index_byte_size)
                  = CastSliceU32(IndicesFrom(meshes, 1))
           /\ \A i \in 1 .. Len(meshes) :
                 /\ \A j \in 1 .. Len(meshes[i].vertices), b \in 0 .. (VertexSize - 1) :
                        memory[data.vertex_offset
                               + ((table[i].vertex_offset + j - 1) * VertexSize) + b + 1]
                            = VertexByte(meshes[i].vertices[j], b)
                 /\ \A j \in 1 .. table[i].index_count :
                        /\ \A b \in 1 .. IndexSize :
                               memory[data.index_offset
                                      + ((table[i].index_offset + j - 1) * IndexSize)
                                      + b][1] = "u8"
                        /\ U32At(memory, data.index_offset
                                     + ((table[i].index_offset + j - 1) * IndexSize))
                               = meshes[i].indices[j]

\* a loaded list with vertices and indices in every mesh: the index copy
\* went through the staging memory the vertex copy had used
C13_Witness ==
    /\ Loaded
    /\ Len(meshes) = MaxMeshes
    /\ \A i \in 1 .. Len(meshes) :
           Len(meshes[i].vertices) > 0 /\ Len(meshes[i].indices) > 0
    /\ staging.memory[1][1] = "u8"
    /\ mesh_buffer.memory[1][1] = "vertex"

\* ---- C14: the draws of a frame
DrawPositions == {k \in 1 .. Len(log) : log[k].op = "cmd_draw_indexed"}

\* the position in the log of the i-th indexed draw
DrawPosition(i) ==
    CHOOSE k \in DrawPositions : Cardinality({j \in DrawPositions : j < k}) = i - 1

DrawsMatchCalls ==
    /\ Cardinality(DrawPositions) = Len(draw_calls)
    /\ \A i \in 1 .. Len(draw_calls) :
          LET k == DrawPosition(i)
              entry == mesh_offsets[draw_calls[i].mesh + 1]
          IN /\ log[k].index_count = entry.index_count
             /\ log[k].first_index = entry.index_offset
             /\ log[k].vertex_offset = entry.vertex_offset
             /\ k > 1
             /\ log[k - 1].op = "cmd_push_constants"
             /\ log[k - 1].offset = WORLD_PUSH_OFFSET
             /\ log[k - 1].data = draw_calls[i].world
             /\ log[k - 1].command = log[k].command
             /\ log[k].command = log[1].semaphore

\* C14: the indexed draws recorded for a frame are, in call order, the draw
\* calls made with a valid handle while the frame was open: one indexed draw
\* per call, right behind the push of that call's world matrix, with the
\* index count, first index and vertex offset of the table entry of that
\* call's handle; begin_frame and end_frame add no indexed draw.
C14_DrawsRecordedPerCall ==
    [][ /\ DrawsMatchCalls'
        /\ last_call'.op = "end_frame" =>
               (DrawPositions' = DrawPositions /\ draw_calls' = draw_calls)
        /\ last_call'.op = "begin_frame" =>
               (DrawPositions' = {} \/ log' = log)
      ]_vars

\* a presented frame with MaxDraws draws, of two different meshes
C14_Witness ==
    /\ ~driver_failed
    /\ FrameComplete(log)
    /\ Len(draw_calls) = MaxDraws
    /\ draw_calls[1].mesh # draw_calls[MaxDraws].mesh

\* ---- C15: the order of destruction
\* the order of the claim: kinds of one group share a place
ClaimedOrder ==
    << {"pipeline"}, {"pipeline_layout"}, {"mesh_data.buffer", "mesh_data.memory"},
       {"framebuffer"}, {"view"},
       {"depth_buffer.view", "depth_buffer.image", "depth_buffer.memory"},
       {"image_draw_finished", "image_draw_ready", "image_available", "swapchain"},
       {"swapchain.pool"},
       {"render_pass"},
       {"command_pools.graphics", "command_pools.compute", "command_pools.transfer"},
       {"device"}, {"messenger"}, {"surface"}, {"instance"} >>

\* the same groups with the command pools before the render pass and the
\* surface before the debug messenger
DroppedOrder ==
    << {"pipeline"}, {"pipeline_layout"}, {"mesh_data.buffer", "mesh_data.memory"},
       {"framebuffer"}, {"view"},
       {"depth_buffer.view", "depth_buffer.image", "depth_buffer.memory"},
       {"image_draw_finished", "image_draw_ready", "image_available", "swapchain"},
       {"swapchain.pool"},
       {"command_pools.graphics", "command_pools.compute", "command_pools.transfer"},
       {"render_pass"},
       {"device"}, {"surface"}, {"messenger"}, {"instance"} >>

PlaceIn(order, kind) == CHOOSE k \in 1 .. Len(order) : kind \in order[k]

DestroyedInOrder(order) ==
    \A i, j \in 1 .. Len(destroyed) :
        i < j => PlaceIn(order, destroyed[i].kind) <= PlaceIn(order, destroyed[j].kind)

DestroyedKinds == {destroyed[i].kind : i \in 1 .. Len(destroyed)}

ErrorLogged(l) == l # <<>> /\ l[Len(l)].op = "error"

\* the log ends with the error of one of `calls`, it holds no other error
\* and no second attempt of the failed call
FailedOnce(l, calls) ==
    /\ ErrorLogged(l)
    /\ l[Len(l)].call \in calls
    /\ \A k \in 1 .. (Len(l) - 1) : l[k].op \notin {"error", l[Len(l)].call}

\* C16: a failed driver call of a frame is reported and not retried.  A
\* begin_frame returns Err exactly when acquire_next_image, wait_for_fences,
\* reset_fences or begin_command_buffer failed in it, and then no frame is
\* open; an end_frame of an open frame returns Err exactly when
\* end_command_buffer, queue_submit or queue_present failed in it, and the
\* frame is closed either way; the log of the call ends with the failed call,
\* which was made once.
C16_FailureReportedNotRetried ==
    [][ /\ (last_call'.op = "begin_frame" /\ ~last_call'.was_open /\ pc' = "idle") =>
              /\ last_result' = "Err" <=> ErrorLogged(log')
              /\ last_result' = "Err" =>
                    /\ current_frame' = <<>>
                    /\ FailedOnce(log', {"acquire_next_image", "wait_for_fences",
                                         "reset_fences", "begin_command_buffer"})
              /\ last_result' = "Ok" => current_frame' # <<>>
        /\ (last_call' = [op |-> "end_frame", was_open |-> TRUE]) =>
              /\ last_result' = "Err" <=> ErrorLogged(log')
              /\ last_result' = "Err" =>
                    FailedOnce(log', {"end_command_buffer", "queue_submit",
                                     "queue_present"})
              /\ current_frame' = <<>>
              /\ pc' = "idle"
      ]_vars

\* an end_frame that submitted the frame and failed to present it
C16_Witness ==
    /\ last_call = [op |-> "end_frame", was_open |-> TRUE]
    /\ last_result = "Err"
    /\ current_frame = <<>>
    /\ Len(log) > 1
    /\ log[Len(log)] = EvError("queue_present")
    /\ log[Len(log) - 1].op = "queue_submit"

\* ---- C17: submit and present of a frame
\* C17: the queue_submit of a frame waits on the draw-ready semaphore of the
\* slot that was passed to the frame's acquire_next_image, signals the
\* draw-finished semaphore of that slot and takes the 'available' fence of
\* the image index the acquire returned; it is what enters the graphics
\* queue; the queue_present behind it waits on that draw-finished semaphore
\* and presents that image index.  A frame has at most one of each.
C17_SubmitAndPresentOfFrame ==
    [][ /\ \A k \in 1 .. Len(log') :
              /\ log'[k].op = "queue_submit" =>
                    /\ log'[1].op = "acquire_next_image"
                    /\ log'[k].wait = log'[1].semaphore
                    /\ log'[k].signal = log'[1].semaphore
                    /\ log'[k].command = log'[1].semaphore
                    /\ log'[k].fence = log'[1].image_index
                    /\ \A j \in 1 .. Len(log') : log'[j].op = "queue_submit" => j = k
              /\ log'[k].op = "queue_present" =>
                    /\ k = Len(log')
                    /\ log'[k - 1].op = "queue_submit"
                    /\ log'[k].wait = log'[k - 1].signal
                    /\ log'[k].image_index = log'[1].image_index
        /\ \A k \in (Len(log) + 1) .. Len(log') :
              (IsPrefix(log, log') /\ log'[k].op = "queue_submit") =>
                  graphics_queue' = Append(graphics_queue,
                      [command |-> log'[k].command, wait |-> log'[k].wait,
                       signal |-> log'[k].signal, fence |-> log'[k].fence])
        /\ (graphics_queue' # graphics_queue /\ last_call'.op # "gpu") =>
              \E k \in (Len(log) + 1) .. Len(log') : log'[k].op = "queue_submit"
      ]_vars

\* a presented frame whose image index is not its slot, on the second slot
C17_Witness ==
    /\ log # <<>>
    /\ log[Len(log)].op = "queue_present"
    /\ log[1].semaphore # log[1].image_index
    /\ log[1].semaphore = ImageCount - 1
    /\ graphics_queue # <<>>

\* ---- C18: the frame-slot counter
\* the step presented an image
Presented == log' # <<>> /\ log'[Len(log')].op = "queue_present" /\ log' # log

\* C18: the frame-slot counter is 0 after construction, stays in
\* 0 .. image count - 1, goes up by one modulo the image count in every step
\* that presents an image, and is left alone by every other step:
\* begin_frame, draw, an end_frame without a frame, and an end_frame whose
\* end_command_buffer, queue_submit or queue_present fails.
C18_FrameSlotCounter ==
    [][ /\ last_call.op = "new" => frame = 0
        /\ frame \in 0 .. (ImageCount - 1)
        /\ frame' \in 0 .. (ImageCount - 1)
        /\ Presented => frame' = (frame + 1) % ImageCount
        /\ Presented => frame' # frame
        /\ ~Presented => frame' = frame
        /\ Presented => (last_call' = [op |-> "end_frame", was_open |-> TRUE]
                         /\ last_result' = "Ok")
      ]_vars

\* the counter wrapped around to 0 and a present failed after that
C18_Witness ==
    /\ frame = 0
    /\ Len(log) > 1
    /\ log[1].op = "acquire_next_image"
    /\ log[1].semaphore = 0
    /\ log[Len(log)] = EvError("queue_present")
    /\ graphics_queue # <<>>
    /\ Len(graphics_queue) >= ImageCount

\* ---- C19: the Frame built by acquire_image
\* the Frame f was built for frame slot s from the acquire in log[1]
FrameOfSlot(f, s) ==
    /\ log # <<>>
    /\ log[1] = EvAcquire(s, f.image_index)
    /\ f.image_index \in Images
    /\ f.command = s
    /\ f.draw_ready = s
    /\ f.draw_finished = s
    /\ f.available = f.image_index
    /\ f.framebuffer = f.image_index

\* C19: the Frame of acquire_image has the command buffer, the draw-ready
\* semaphore and the draw-finished semaphore of the current frame slot, which
\* is the semaphore passed to acquire_next_image, and the 'available' fence
\* and the framebuffer of the image index acquire_next_image returned; the
\* fence it waits on and resets and the framebuffer of the render pass are
\* those of the image index, the command buffer it begins is the slot's.
C19_FrameFromSlotAndImage ==
    /\ pc = "wait_fence" => FrameOfSlot(acquiring[1], frame)
    /\ current_frame # <<>> =>
          /\ FrameOfSlot(current_frame[1], frame)
          /\ \A k \in 1 .. Len(log) :
                /\ log[k].op \in {"wait_for_fences", "reset_fences"} =>
                       log[k].fence = log[1].image_index
                /\ log[k].op = "begin_command_buffer" =>
                       log[k].command = log[1].semaphore
                /\ log[k].op = "cmd_begin_render_pass" =>
                       log[k].framebuffer = log[1].image_index

\* an open frame on the last slot with the first image
C19_Witness ==
    /\ current_frame # <<>>
    /\ frame = ImageCount - 1
    /\ current_frame[1].image_index = 0
    /\ current_frame[1].command = ImageCount - 1

\* ---- C20: the image count asked of the swapchain
SwapchainRequested == swapchain_info # None

Larger(a, b) == IF a >= b THEN a ELSE b
Smaller(a, b) == IF a <= b THEN a ELSE b

\* C20 as claimed: the requested image count is the larger of
\* min_image_count + 1 and max_image_count when the surface has a maximum,
\* and min_image_count + 1 when it has none.
C20_ImageCountAsClaimed ==
    SwapchainRequested =>
        LET capabilities == Config.surface_capabilities
            requested == Unwrap(swapchain_info).info.min_image_count
        IN IF capabilities.max_image_count # 0
           THEN requested = Larger(capabilities.min_image_count + 1,
                                   capabilities.max_image_count)
           ELSE requested = capabilities.min_image_count + 1

\* C20 (amended): the requested image count is the smaller of
\* min_image_count + 1 and max_image_count when the surface has a maximum
\* (max_image_count # 0), and min_image_count + 1 when it has none; so it is
\* above the minimum unless the maximum forbids it and never above the maximum.
C20_ImageCount ==
    SwapchainRequested =>
        LET capabilities == Config.surface_capabilities
            requested == Unwrap(swapchain_info).info.min_image_count
        IN /\ IF capabilities.max_image_count # 0
              THEN requested = Smaller(capabilities.min_image_count + 1,
                                       capabilities.max_image_count)
              ELSE requested = capabilities.min_image_count + 1
           /\ requested >= capabilities.min_image_count
           /\ capabilities.max_image_count # 0 =>
                  requested <= capabilities.max_image_count

\* a surface whose maximum equals its minimum: the maximum is what is asked
C20_Witness ==
    /\ SwapchainRequested
    /\ Config.surface_capabilities.max_image_count
           = Config.surface_capabilities.min_image_count
    /\ Unwrap(swapchain_info).info.min_image_count
           = Config.surface_capabilities.max_image_count

\* ---- queue-family resolution
\* the family indices of the device d whose flags hold `flag`
FamiliesWith(d, flag) ==
    {i \in 0 .. (Len(d.queue_families) - 1) : flag \in d.queue_families[i + 1].queue_flags}

\* C21: the graphics family is the lowest-index graphics-capable family; the
\* compute family is graphics-capable and differs from the graphics family
\* whenever the device has two or more graphics-capable families, and equals
\* it only when there is exactly one, for every order of the family list.
C21_GraphicsAndComputeFamilies ==
    SelectedOk =>
        LET d == devices[Config.device]
            q == Config.queue_families
            capable == FamiliesWith(d, "GRAPHICS")
        IN /\ q.graphics \in capable
           /\ \A i \in capable : q.graphics <= i
           /\ q.compute \in capable
           /\ Cardinality(capable) >= 2 => q.compute # q.graphics
           /\ q.compute = q.graphics => Cardinality(capable) = 1

\* the first family cannot draw, two later ones can: graphics is the first of
\* the two and compute the other
C21_Witness ==
    /\ SelectedOk
    /\ LET d == devices[Config.device]
           q == Config.queue_families
       IN /\ Len(d.queue_families) = MaxFamilies
          /\ 0 \notin FamiliesWith(d, "GRAPHICS")
          /\ Cardinality(FamiliesWith(d, "GRAPHICS")) >= 2
          /\ q.graphics = 1
          /\ q.compute # q.graphics

\* the resolutions of the device d in which the three families differ
DistinctResolutions(d) ==
    {r \in FamiliesWith(d, "GRAPHICS") \X FamiliesWith(d, "GRAPHICS")
            \X FamiliesWith(d, "TRANSFER") :
        r[1] # r[2] /\ r[1] # r[3] /\ r[2] # r[3]}

\* C22 as stated: the transfer family is transfer-capable and differs from the
\* resolved graphics and compute families whenever the family list admits a
\* resolution with three pairwise distinct families.
C22_TransferDistinctAsClaimed ==
    SelectedOk =>
        LET d == devices[Config.device]
            q == Config.queue_families
        IN /\ q.transfer \in FamiliesWith(d, "TRANSFER")
           /\ DistinctResolutions(d) # {} => q.transfer \notin {q.graphics, q.compute}

\* C22, amended: the transfer family is transfer-capable and differs from the
\* resolved graphics and compute families whenever the device has a
\* transfer-capable family other than these two; it coincides with one of
\* them only when every transfer-capable family is one of them.
C22_TransferDistinct ==
    SelectedOk =>
        LET d == devices[Config.device]
            q == Config.queue_families
            others == FamiliesWith(d, "TRANSFER") \ {q.graphics, q.compute}
        IN /\ q.transfer \in FamiliesWith(d, "TRANSFER")
           /\ others # {} => q.transfer \in others
           /\ q.transfer \in {q.graphics, q.compute} => others = {}

\* every family can transfer, two can draw: the transfer family is the third
\* one, although the graphics family came first in the list
C22_Witness ==
    /\ SelectedOk
    /\ LET d == devices[Config.device]
           q == Config.queue_families
       IN /\ Len(d.queue_families) = MaxFamilies
          /\ FamiliesWith(d, "TRANSFER") = 0 .. (MaxFamilies - 1)
          /\ q.graphics = 0
          /\ q.compute # q.graphics
          /\ q.transfer \notin {q.graphics, q.compute}

\* the family indices of the device d the surface reports as presentable
FamiliesPresenting(d) ==
    {i \in 0 .. (Len(d.queue_families) - 1) :
        d.queue_families[i + 1].surface_support = Some(TRUE)}

\* C23: the present family is the lowest-index family that the surface
\* reports as supporting presentation, for every device with one or more
\* such families.
C23_PresentIsFirstSupporting ==
    SelectedOk =>
        LET d == devices[Config.device]
            q == Config.queue_families
        IN /\ q.present \in FamiliesPresenting(d)
           /\ \A i \in FamiliesPresenting(d) : q.present <= i

\* ---- sequencing of the upload
\* Drop for StagingBuffer has run
StagingDestroyed ==
    \E k \in 1 .. Len(load_log) : load_log[k] = LdCall("destroy_buffer", "staging", 0, 0)

\* the number of queue_submit calls made so far
CopiesSubmitted ==
    Cardinality({k \in 1 .. Len(load_log) : load_log[k].op = "queue_submit"})

\* while the staging buffer lives, the host writes into it and a copy is
\* submitted only when no earlier copy is pending, and the fence is
\* unsignaled at each submit
StagingNotWrittenWhileRead ==
    load_pc \in {"write", "submit"} => transfer_queue = <<>> /\ ~staging.fence

\* C24: the two regions go through the staging buffer one after the other:
\* no host write and no submit while a copy is pending, the fence unsignaled
\* at each submit, the index region written only after the vertex copy has
\* completed, and the staging buffer and its fence destroyed only when no
\* submitted copy is pending any more (after both copies when the upload
\* returns Ok).
C24_RegionsOneAfterTheOther ==
    /\ StagingNotWrittenWhileRead
    /\ (load_pc \in {"write", "submit", "wait"} /\ region = 2) => CopiesSubmitted >= 1
    /\ StagingDestroyed => transfer_queue = <<>>
    /\ (StagingDestroyed /\ load_pc = "done") => CopiesSubmitted = 2

\* ---- sizes of the upload
\* the byte lengths of the two regions, counted from the mesh list
VertexBytes == 64 * Cardinality(VerticesBefore(Len(meshes) + 1))
IndexBytes == 4 * Cardinality(IndicesBefore(Len(meshes) + 1))

\* the calls of the log with the given op on the given object
LoggedCalls(op, object) ==
    {k \in 1 .. Len(load_log) : load_log[k].op = op /\ load_log[k].object = object}

\* C25: the geometry buffer has vertex bytes + index bytes, the staging
\* buffer the larger of the two; the vertex region is copied to
\* [0, vertex bytes) and the index region to [vertex bytes, vertex bytes +
\* index bytes), so every host write and every copy fits into the staging
\* buffer, every copy fits into the destination and the two destination
\* regions do not overlap.
C25_BufferSizesAndRegions ==
    LET copies == LoggedCalls("cmd_copy_buffer", "mesh_data")
        writes == LoggedCalls("copy_nonoverlapping", "staging")
        first == CHOOSE k \in copies : \A j \in copies : k <= j
        last == CHOOSE k \in copies : \A j \in copies : j <= k
    IN /\ \A k \in LoggedCalls("create_buffer", "mesh_data") :
              load_log[k].size = VertexBytes + IndexBytes
       /\ \A k \in LoggedCalls("create_buffer", "staging") :
              /\ load_log[k].size \in {VertexBytes, IndexBytes}
              /\ load_log[k].size >= VertexBytes
              /\ load_log[k].size >= IndexBytes
       /\ load_pc \notin {"start", "failed"} =>
              /\ mesh_buffer.size = VertexBytes + IndexBytes
              /\ Len(mesh_buffer.memory) = mesh_buffer.size
              /\ Len(staging.memory) = staging.size
       /\ \A k \in writes :
              load_log[k].offset + load_log[k].size <= staging.size
       /\ \A k \in copies :
              /\ load_log[k].size <= staging.size
              /\ load_log[k].offset + load_log[k].size <= mesh_buffer.size
       /\ Cardinality(copies) <= 2
       /\ copies # {} =>
              /\ load_log[first].offset = 0
              /\ load_log[first].size = VertexBytes
       /\ Cardinality(copies) = 2 =>
              /\ load_log[last].offset = VertexBytes
              /\ load_log[last].size = IndexBytes
              /\ load_log[first].offset + load_log[first].size <= load_log[last].offset

\* an upload that has returned Ok for two meshes with vertices and indices
C25_Witness ==
    /\ load_pc = "done"
    /\ mesh_data # None
    /\ Len(meshes) = MaxMeshes
    /\ VertexBytes > IndexBytes
    /\ IndexBytes > 0
    /\ Cardinality(LoggedCalls("cmd_copy_buffer", "mesh_data")) = 2

\* ---- termination of begin_frame
\* the fence begin_frame waits on is signaled or a pending submission will
\* signal it
AwaitedFenceWillSignal ==
    pc = "wait_fence" =>
        \/ image_available[acquiring[1].available]
        \/ \E k \in 1 .. Len(graphics_queue) :
               graphics_queue[k].fence = acquiring[1].available

\* C26: when no driver call fails and the graphics queue completes every
\* submission, each begin_frame that has acquired an image returns: the fence
\* it waits on is signaled or is the fence of a pending submission, whatever
\* image indices the presentation engine returns.
C26_BeginFrameReturns ==
    /\ []AwaitedFenceWillSignal
    /\ (pc = "wait_fence") ~> (pc = "idle" /\ current_frame # <<>>)

\* begin_frame blocks: the image it got is the one of a submission that has
\* not completed
C26_Witness ==
    /\ pc = "wait_fence"
    /\ ~image_available[acquiring[1].available]
    /\ acquiring[1].image_index # acquiring[1].command
    /\ \E k \in 1 .. Len(graphics_queue) :
           graphics_queue[k].fence = acquiring[1].available

\* ---- teardown against the order of creation
\* the objects of create_swapchain
SwapchainKinds ==
    {"framebuffer", "view", "depth_buffer.view", "depth_buffer.image",
     "depth_buffer.memory", "image_draw_finished", "image_draw_ready",
     "image_available", "swapchain", "swapchain.pool"}

PoolKinds ==
    {"command_pools.graphics", "command_pools.compute", "command_pools.transfer"}

MeshKinds == {"mesh_data.buffer", "mesh_data.memory"}

\* the reverse of the order of creation: instance, debug messenger, surface,
\* logical device, command pools, render pass, swapchain, pipeline layout,
\* pipeline, mesh geometry buffer
ReverseOfCreation ==
    << MeshKinds, {"pipeline"}, {"pipeline_layout"}, SwapchainKinds,
       {"render_pass"}, PoolKinds, {"device"}, {"surface"}, {"messenger"},
       {"instance"} >>

\* the order of the drop: the mesh buffer behind pipeline and layout, the
\* command pools before the render pass
OrderOfDrop ==
    << {"pipeline"}, {"pipeline_layout"}, MeshKinds, SwapchainKinds,
       PoolKinds, {"render_pass"}, {"device"}, {"surface"}, {"messenger"},
       {"instance"} >>

\* the object that created the objects of a kind
Creator(kind) ==
    IF kind = "instance" THEN "entry"
    ELSE IF kind \in {"device", "surface", "messenger"} THEN "instance"
    ELSE "device"

\* no object is destroyed after the object that created it
CreatorOutlives ==
    \A i, j \in 1 .. Len(destroyed) :
        i < j => destroyed[i].kind # Creator(destroyed[j].kind)

\* a step that destroys the first object starts with an idle device
IdleBeforeFirstDestroy ==
    (destroyed = <<>> /\ destroyed' # <<>>) => graphics_queue = <<>>

PresentReturned(suboptimal) ==
    /\ Presented
    /\ log'[Len(log')].suboptimal = suboptimal

\* the calls Device::end_frame makes when every call succeeds
EndFrameCalls == << "cmd_end_render_pass", "end_command_buffer", "queue_submit",
                   "queue_present" >>

\* C28: an end_frame whose present is suboptimal returns Ok, closes the frame
\* and advances the frame-slot counter by one modulo the image count, the
\* image goes back to the presentation engine as after an optimal present,
\* and the step makes no driver call beyond end of render pass, end of
\* command buffer, submit and present: nothing of the swapchain is recreated
\* or destroyed.
C28_SuboptimalPresentIgnored ==
    [][PresentReturned(TRUE) =>
          /\ last_result' = "Ok"
          /\ current_frame # <<>> /\ current_frame' = <<>>
          /\ frame' = (frame + 1) % ImageCount
          /\ image_owner' = [image_owner EXCEPT ![current_frame[1].image_index] = "engine"]
          /\ Len(log') = Len(log) + Len(EndFrameCalls)
          /\ \A k \in 1 .. Len(EndFrameCalls) : log'[Len(log) + k].op = EndFrameCalls[k]
          /\ UNCHANGED <<image_available, pc, acquiring, driver_failed, panicked,
                         mesh_offsets, swapchain_info, drop_pc, destroyed>>]_vars

\* a frame with a draw was presented suboptimally from the second slot
C28_Witness ==
    /\ log # <<>>
    /\ log[Len(log)].op = "queue_present"
    /\ log[Len(log)].suboptimal
    /\ last_result = "Ok"
    /\ last_call = [op |-> "end_frame", was_open |-> TRUE]
    /\ current_frame = <<>>
    /\ frame = 0
    /\ DrawCount > 0
    /\ log[1].semaphore = 1

\* ---- fences after a failed frame
\* the fence of image i is signaled, or the open frame or a pending
\* submission will signal it
FenceWillSignal(i) ==
    \/ image_available[i]
    \/ current_frame # <<>> /\ current_frame[1].available = i
    \/ \E k \in 1 .. Len(graphics_queue) : graphics_queue[k].fence = i

\* C29: a fence that acquire_image has reset is signaled again by a queue
\* submission, also when a driver call fails between the reset and the
\* submit: whenever the thread is between two Renderer calls, every
\* unsignaled fence belongs to the open frame or to a pending submission.
C29_ResetFenceIsSignaledAgain ==
    pc = "idle" => \A i \in Images : FenceWillSignal(i)

\* ---- a construction that fails
\* the construction has failed and the instance is destroyed again
FailedAndUnwound ==
    /\ new_pc \in {"failed", "panicked"}
    /\ drop_pc = "done"

\* C30: when the construction of the backend fails after it has created the
\* logical device, everything created up to that step is destroyed again: no
\* object of the device and no logical device is left when the instance has
\* been destroyed on the error path.
C30_FailedConstructionCleansUp ==
    (FailedAndUnwound /\ Obj("device", 0) \in {created[k] : k \in 1 .. Len(created)}) =>
        \A k \in 1 .. Len(created) :
            \E j \in 1 .. Len(destroyed) : destroyed[j] = created[k]
====
